---- MODULE Spec2Model ----
(***************************************************************************)
(* GoBuffer_DB: paged disk manager, buffer pool with LRU/MRU replacement,  *)
(* heap-file relation manager (header page + free/full page lists),        *)
(* catalog and command layer.                                              *)
(*                                                                         *)
(* A page is modelled by the byte ranges the code reads and writes:        *)
(*   b0  = bytes 0..7   (data page: prev pointer; header page: firstFull)  *)
(*   b8  = bytes 8..15  (data page: next pointer; header: firstWithSpace)  *)
(*   b16 = bytes 16..19 (slot count)                                       *)
(*   bytemap = bytes 20..20+S-1, payload = the S record cells after it.    *)
(* All relations of one run share one schema (RecordSize/4 INT columns),   *)
(* so S is the same for every data page.  A field value is modelled by the *)
(* integer its decimal string denotes.                                     *)
(***************************************************************************)
EXTENDS Integers, Sequences, FiniteSets, Bags, TLC

\* ---------------------------------------------------------------- bounds
PageSize == 30
DMMaxFileCount == 2
BMBufferCount == 2
MaxPages == 5
MaxVal == 2
MaxPin == 2
MaxOps == 10
MaxBufPages == 3
MaxCatOps == 8
MaxCmdOps == 8
MaxStaleOps == 7
MaxDiskPages == 3
MaxDiskOps == 7
NCallers == 2
MaxConcOps == 5
MaxDbOps == 6
BufBytes == 10
MaxPos == 3
MaxWalkOps == 2
MaxPrependOps == 6
MaxPinOps == 7
MaxReuseOps == 13
MaxUpdOps == 5
MaxAllOps == 8
MaxFreshOps == 7

\* ------------------------------------------------------ program constants
headerFixed == 20

RecordSizes == {4, 8}
TableNames == {"T1", "T2"}
Policies == {"LRU", "MRU"}
RecVals == 1..MaxVal

VARIABLES
  files,      \* files[idx]: the pages of Data<idx>.bin, in order
  bitmaps,    \* bitmaps[idx]: allocation bytes of segment idx (memory = Data<idx>.bitmap)
  frames,     \* frames[i]: BufferFrame {PageId, Data, PinCount, Dirty}
  repl,       \* replacement list of frame indices, front first
  lookup,     \* page key -> frame (list element)
  policy,     \* current replacement policy
  RecordSize, \* Relation.RecordSize of the schema in use
  tables,     \* DBManager.tables/rms: name -> RelationManager state
  hdrFiles,   \* <name>.hdr files: name -> header PageId
  saveFile,   \* database.save: whether it exists, and its entries {Name, Header}
  running,    \* TRUE while an engine instance is up
  live,       \* history: per table, the bag of <<rid, value>> inserted and not deleted
  acq,        \* history: per page, GetPage minus FreePage calls since it was loaded
  owned,      \* history: per table, the data pages allocated on its behalf
  last,       \* history: the last operation, its error and its result
  left,       \* how many more operations the run under check performs
  dmMaxFileCount, \* cfg.DMMaxFileCount of the DiskManager
  used,       \* history: the frames in the order of their last access, oldest first
  evicted,    \* history: per page out of the pool, its bytes when it was evicted dirty
  written,    \* history: per page, the bytes of its last successful WritePage
  pc,         \* concurrent callers of the DiskManager: where each one is
  mu,         \* DiskManager.mu: 0 when unlocked, else the caller holding it
  alloc,      \* history: the bag of pages handed out and not freed since
  names,      \* history: the table names added and not removed since
  saved,      \* history: the catalog when SaveState last wrote database.save
  arg         \* the arguments of the function a run applies

vars == <<files, bitmaps, frames, repl, lookup, policy, RecordSize, tables,
          hdrFiles, saveFile, running, live, acq, owned, last, left,
          dmMaxFileCount, used, evicted, written, pc, mu, alloc, names, saved, arg>>

\* what the runs of the disk manager alone use
diskRun == <<dmMaxFileCount, written, pc, mu, alloc>>

\* what the relation, catalog and command layers leave alone
\* what the runs of the catalog and of single functions use
catRun == <<names, saved, arg>>

outside == <<used, evicted, diskRun, catRun>>

\* ------------------------------------------------------------- helpers
Min(S) == CHOOSE x \in S : \A y \in S : x <= y

PID(f, p) == [FileIdx |-> f, PageIdx |-> p]

invalidPage == PID(-1, -1)

\* config.PageId{} : the Go zero value
zeroPageId == PID(0, 0)

\* binary.LittleEndian.PutUint32(b, uint32(v)): the four bytes, as the low
\* and the high 16-bit half
PutUint32(v) == <<v % 65536, (v \div 65536) % 65536>>

\* int32(binary.LittleEndian.Uint32(b))
ReadInt32(b) == IF b[2] >= 32768 THEN (b[2] - 65536) * 65536 + b[1] ELSE b[2] * 65536 + b[1]

\* a PageId written into 8 bytes of a page (writeInt32) and read back (readInt32)
StoredPid(pid) == PID(ReadInt32(PutUint32(pid.FileIdx)), ReadInt32(PutUint32(pid.PageIdx)))

computeSlotsPerPage(pageSize, recordSize) == (pageSize - headerFixed) \div (1 + recordSize)

S == computeSlotsPerPage(PageSize, RecordSize)

\* number of INT columns of the schema (NewRelation: 4 bytes per INT column)
NCols == RecordSize \div 4

ZeroCell == [c \in 1..NCols |-> <<0, 0>>]

\* Relation.Columns of the schema in use: ColumnInfo {Name, Kind, Size}
Columns == [c \in 1..NCols |-> [Name |-> c, Kind |-> "INT", Size |-> 0]]

\* NewRelation: the record size is the sum of the column sizes
RECURSIVE SizeOf(_, _)
SizeOf(cols, i) ==
  IF i > Len(cols) THEN 0
  ELSE (IF cols[i].Kind \in {"INT", "FLOAT"} THEN 4 ELSE cols[i].Size) + SizeOf(cols, i + 1)

NewRelation(name, cols) == [Name |-> name, Columns |-> cols, RecordSize |-> SizeOf(cols, 1)]

ZeroPage == [b0 |-> zeroPageId, b8 |-> zeroPageId, b16 |-> 0,
             bytemap |-> [i \in 1..S |-> 0], payload |-> [i \in 1..S |-> ZeroCell]]

SeqRemove(s, x) == SelectSeq(s, LAMBDA y : y # x)

MoveToBack(l, e) == Append(SeqRemove(l, e), e)

MoveToFront(l, e) == <<e>> \o SeqRemove(l, e)

Fail(m, e) == [m EXCEPT !.err = e]

Ok(m) == m.err = ""

\* "x, err := ...; if err != nil { return err }; F(x)": the call that produced x
\* failed and its error is returned, or the function goes on with F
Then(x, F(_)) == IF x.err # "" THEN x ELSE F(x)

\* "_ = f(...)": the error of the call is dropped
Ignore(x, e) == [x EXCEPT !.err = e]

\* ------------------------------------------------------- disk manager
ValidPid(m, pid) ==
  /\ pid.FileIdx >= 0 /\ pid.FileIdx < m.DMMaxFileCount
  /\ pid.PageIdx >= 0 /\ pid.PageIdx < Len(m.bitmaps[pid.FileIdx])

\* the range loop of AllocatePage taking the last zero byte instead
LastFree(bmp) ==
  IF \E i \in 1..Len(bmp) : bmp[i] = 0
    THEN (CHOOSE i \in 1..Len(bmp) : bmp[i] = 0 /\ \A j \in (i + 1)..Len(bmp) : bmp[j] # 0) - 1
    ELSE -1

\* AllocatePage, "for i, b := range bmp { if b == 0": the index of the first
\* zero byte of the bitmap, -1 when the range loop ends without one
FirstFree(bmp) ==
  IF \E i \in 1..Len(bmp) : bmp[i] = 0
    THEN Min({i \in 1..Len(bmp) : bmp[i] = 0}) - 1
    ELSE -1

\* AllocatePage, after the scan: page i of segment idx is marked used, or
\* (i = -1) the file grows by one zero page and the bitmap by a 1 byte
Claim(m, idx, i) ==
  IF i >= 0
    THEN [m EXCEPT !.bitmaps[idx][i + 1] = 1, !.ret = PID(idx, i)]
    ELSE [m EXCEPT !.files[idx] = Append(@, ZeroPage),
                   !.bitmaps[idx] = Append(@, 1),
                   !.ret = PID(idx, Len(m.bitmaps[idx]))]

\* AllocatePage: the loop body returns in its first iteration (segment 0)
AllocateIn(m, idx) == Claim(m, idx, FirstFree(m.bitmaps[idx]))

\* AllocatePage without the bound DMMaxFileCount on its loop
AllocatePageUnbounded(m) ==
  IF PageSize <= 0 THEN Fail(m, "invalid pagesize") ELSE AllocateIn(m, 0)

AllocatePage(m) ==
  IF PageSize <= 0 THEN Fail(m, "invalid pagesize")
  ELSE IF 0 < m.DMMaxFileCount THEN AllocateIn(m, 0)
  ELSE Fail(m, "no space")

DiskFreePage(m, pid) ==
  IF pid.FileIdx < 0 \/ pid.FileIdx >= m.DMMaxFileCount THEN Fail(m, "invalid file idx")
  ELSE IF pid.PageIdx < 0 \/ pid.PageIdx >= Len(m.bitmaps[pid.FileIdx])
    THEN Fail(m, "invalid page idx")
  ELSE [m EXCEPT !.bitmaps[pid.FileIdx][pid.PageIdx + 1] = 0]

\* AllocatePage, from the end of its range loop, which saw i, to its return
AllocateScanned(m, i) ==
  IF 0 < m.DMMaxFileCount THEN Claim(m, 0, i) ELSE Fail(m, "no space")

\* a mutex that lets every caller in
TryLockAlways(held) == TRUE

\* "m.mu.Lock()": the caller goes on when no caller holds the mutex
TryLock(held) == held = 0

\* the goroutines that call one DiskManager
Callers == 1..NCallers

\* a caller that is in no call of the DiskManager
idle == [at |-> "idle", op |-> "", pid |-> PID(-1, 0), i |-> -1]

\* the bytes of a page of a data file; beyond end of file ReadAt leaves zeros
FilePage(fs, pid) ==
  IF pid.PageIdx < Len(fs[pid.FileIdx]) THEN fs[pid.FileIdx][pid.PageIdx + 1] ELSE ZeroPage

\* the byte ranges of a page; a []byte shorter than a page is modelled by the
\* leading ranges it covers, one longer than a page by an extra range "over"
PageFields == {"b0", "b8", "b16", "bytemap", "payload"}

\* padToPage: the data followed by zero bytes up to the page size
padToPage(data) == [k \in PageFields |-> IF k \in DOMAIN data THEN data[k] ELSE ZeroPage[k]]

\* WritePage writing the data as it is, without padToPage
WritePageUnpadded(m, pid, data) ==
  IF "over" \in DOMAIN data THEN Fail(m, "data too large")
  ELSE IF ~ValidPid(m, pid)
    THEN Fail(m, IF pid.FileIdx < 0 \/ pid.FileIdx >= m.DMMaxFileCount
                   THEN "invalid file idx" ELSE "invalid page idx")
  ELSE LET f == m.files[pid.FileIdx]
           ext == f \o [i \in 1..(pid.PageIdx + 1 - Len(f)) |-> ZeroPage]
       IN [m EXCEPT !.files[pid.FileIdx] = [ext EXCEPT ![pid.PageIdx + 1] = data]]

WritePage(m, pid, data) ==
  IF "over" \in DOMAIN data THEN Fail(m, "data too large")
  ELSE IF ~ValidPid(m, pid)
    THEN Fail(m, IF pid.FileIdx < 0 \/ pid.FileIdx >= m.DMMaxFileCount
                   THEN "invalid file idx" ELSE "invalid page idx")
  ELSE LET f == m.files[pid.FileIdx]
           ext == f \o [i \in 1..(pid.PageIdx + 1 - Len(f)) |-> ZeroPage]
       IN [m EXCEPT !.files[pid.FileIdx] = [ext EXCEPT ![pid.PageIdx + 1] = padToPage(data)]]

\* ReadPage: sets err, or leaves the page in field data
ReadPage(m, pid) ==
  IF ~ValidPid(m, pid)
    THEN Fail(m, IF pid.FileIdx < 0 \/ pid.FileIdx >= m.DMMaxFileCount
                   THEN "invalid file idx" ELSE "invalid page idx")
  ELSE [m EXCEPT !.data = FilePage(m.files, pid)]

\* ----------------------------------------------------- buffer manager
emptyFrame == [PageId |-> invalidPage, Data |-> ZeroPage, PinCount |-> 0, Dirty |-> FALSE]

Touch(m, el) ==
  IF m.policy = "LRU" THEN MoveToBack(m.repl, el) ELSE MoveToFront(m.repl, el)

\* the frame fi takes page pid with the bytes just read (field data)
LoadFrame(r, pid, fi, order) ==
  [r EXCEPT !.frames[fi] = [PageId |-> pid, Data |-> r.data, PinCount |-> 1, Dirty |-> FALSE],
            !.repl = order,
            !.lookup = [k \in DOMAIN @ \cup {pid} |-> IF k = pid THEN fi ELSE @[k]],
            !.fi = fi]

\* GetPage, miss with a free frame
GetPageFree(m, pid, fi) ==
  Then(ReadPage(m, pid), LAMBDA r : LoadFrame(r, pid, fi, Append(r.repl, fi)))

\* GetPage, miss without a free frame: the victim is written back when dirty,
\* dropped from the lookup map, and reloaded
EvictInto(m, pid, victimEl) ==
  Then(IF m.frames[victimEl].Dirty
         THEN WritePage(m, m.frames[victimEl].PageId, m.frames[victimEl].Data) ELSE m,
       LAMBDA w :
         Then(ReadPage([w EXCEPT !.lookup = [k \in DOMAIN @ \ {w.frames[victimEl].PageId} |-> @[k]]],
                       pid),
              LAMBDA r : LoadFrame(r, pid, victimEl, Touch(r, victimEl))))

\* victimEl: the front of the list under LRU, its back otherwise
Victim(m) == IF m.policy = "LRU" THEN Head(m.repl) ELSE m.repl[Len(m.repl)]

\* GetPage evicting without looking at the victim's PinCount
GetPageEvictPinned(m, pid) ==
  IF m.repl = <<>> THEN Fail(m, "no available frame to evict")
  ELSE EvictInto(m, pid, Victim(m))

\* GetPage dropping the victim from the lookup map before it looks at its PinCount
GetPageEvictLate(m, pid) ==
  IF m.repl = <<>> THEN Fail(m, "no available frame to evict")
  ELSE IF m.frames[Victim(m)].PinCount # 0
    THEN Fail([m EXCEPT !.lookup = [k \in DOMAIN @ \ {m.frames[Victim(m)].PageId} |-> @[k]]],
              "all frames pinned")
  ELSE EvictInto(m, pid, Victim(m))

GetPageEvict(m, pid) ==
  IF m.repl = <<>> THEN Fail(m, "no available frame to evict")
  ELSE IF m.frames[Victim(m)].PinCount # 0 THEN Fail(m, "all frames pinned")
  ELSE EvictInto(m, pid, Victim(m))

FreeFrames(m) ==
  {i \in 1..BMBufferCount : m.frames[i].PinCount = 0 /\ m.frames[i].PageId = invalidPage}

\* the pins held on the frames fr[i..]
RECURSIVE PinSum(_, _)
PinSum(fr, i) == IF i > Len(fr) THEN 0 ELSE fr[i].PinCount + PinSum(fr, i + 1)

\* history kept with a call: the most pins held at once since the call began
Peak(m) ==
  IF m.err # "" \/ PinSum(m.frames, 1) <= m.peak THEN m
  ELSE [m EXCEPT !.peak = PinSum(m.frames, 1)]

GetPage(m, pid) ==
  Peak(IF pid \in DOMAIN m.lookup
         THEN [m EXCEPT !.repl = Touch(m, m.lookup[pid]),
                        !.frames[m.lookup[pid]].PinCount = @ + 1,
                        !.fi = m.lookup[pid]]
         ELSE IF FreeFrames(m) # {} THEN GetPageFree(m, pid, Min(FreeFrames(m)))
         ELSE GetPageEvict(m, pid))

FreePage(m, pid, valdirty) ==
  IF pid \notin DOMAIN m.lookup THEN Fail(m, "page not found in buffers")
  ELSE [m EXCEPT !.frames[m.lookup[pid]].PinCount = IF @ > 0 THEN @ - 1 ELSE @,
                 !.frames[m.lookup[pid]].Dirty = IF valdirty THEN TRUE ELSE @]

SetCurrentReplacementPolicy(m, p) == [m EXCEPT !.policy = p]

\* FlushBuffers, one frame of its loop: write back when dirty, then reset
FlushFrame(m, i) ==
  Then(IF m.frames[i].Dirty /\ m.frames[i].PageId # zeroPageId
         THEN Then(WritePage(m, m.frames[i].PageId, m.frames[i].Data),
                   LAMBDA d : [d EXCEPT !.frames[i].Dirty = FALSE])
         ELSE m,
       LAMBDA w : [w EXCEPT !.frames[i].PageId = invalidPage,
                            !.frames[i].PinCount = 0,
                            !.frames[i].Data = ZeroPage])

\* FlushBuffers: the frames in index order; an error returns at once
RECURSIVE FlushFrom(_, _)
FlushFrom(m, i) ==
  IF i > BMBufferCount THEN [m EXCEPT !.repl = <<>>, !.lookup = <<>>]
  ELSE Then(FlushFrame(m, i), LAMBDA w : FlushFrom(w, i + 1))

FlushBuffers(m) == FlushFrom(m, 1)

\* ------------------------------------------------------- record codec
\* WriteRecordToBuffer for INT columns: strconv.Atoi, then PutUint32(uint32(int32(v)))
EncodeInt(v) == PutUint32(v)

\* ReadFromBuffer for INT columns: int32(Uint32(...)), then FormatInt
DecodeInt(b) == ReadInt32(b)

\* err is set on arity mismatch or when the cell does not fit the page
WriteRecordToBuffer(m, rec, fi, slots, slot) ==
  IF Len(rec) # NCols THEN Fail(m, "record arity mismatch")
  ELSE IF headerFixed + slots + slot * RecordSize < 0
          \/ headerFixed + slots + slot * RecordSize + RecordSize > PageSize
    THEN Fail(m, "buffer too small or pos out of range")
  ELSE [m EXCEPT !.frames[fi].Data.payload[slot + 1] = [c \in 1..NCols |-> EncodeInt(rec[c])]]

ReadFromBuffer(cell) == [c \in 1..NCols |-> DecodeInt(cell[c])]

\* -------------------------------------------- relation manager: accessors
\* pageNext without its FreePage: the frame stays pinned
pageNextHeld(m, pid) ==
  Then(GetPage(m, pid), LAMBDA g : [g EXCEPT !.ret = g.frames[g.fi].Data.b8])

\* GetPage(pid), read bytes 8..15, FreePage(pid, false)
pageNext(m, pid) ==
  Then(GetPage(m, pid), LAMBDA g :
    Then(FreePage(g, pid, FALSE), LAMBDA f : [f EXCEPT !.ret = g.frames[g.fi].Data.b8]))

\* GetPage(pid), write bytes 8..15, FreePage(pid, true)
pageSetNext(m, pid, next) ==
  Then(GetPage(m, pid), LAMBDA g :
    FreePage([g EXCEPT !.frames[g.fi].Data.b8 = StoredPid(next),
                       !.frames[g.fi].Dirty = TRUE], pid, TRUE))

headerFirstWithSpace(m) ==
  IF m.HeaderPageId = invalidPage THEN [m EXCEPT !.ret = invalidPage]
  ELSE pageNext(m, m.HeaderPageId)

headerSetFirstWithSpace(m, pid) ==
  IF m.HeaderPageId = invalidPage THEN Fail(m, "header not initialized")
  ELSE pageSetNext(m, m.HeaderPageId, pid)

\* the firstFull read that opens prependToFullList, unlinkFromFull, the scans:
\* GetPage(header), bytes 0..7, FreePage with its error ignored
headerFirstFull(m) ==
  Then(GetPage(m, m.HeaderPageId), LAMBDA g :
    [Ignore(FreePage(g, m.HeaderPageId, FALSE), "") EXCEPT !.ret = g.frames[g.fi].Data.b0])

\* the firstFull write that closes prependToFullList and unlinkFromFull
headerSetFirstFull(m, pid) ==
  Then(GetPage(m, m.HeaderPageId), LAMBDA g :
    FreePage([g EXCEPT !.frames[g.fi].Data.b0 = StoredPid(pid),
                       !.frames[g.fi].Dirty = TRUE], m.HeaderPageId, TRUE))

\* first index i (from 0) below the page's slot count with bytemap byte 0, or -1
FirstZero(page) ==
  IF \E i \in 0..(page.b16 - 1) : page.bytemap[i + 1] = 0
    THEN Min({i \in 0..(page.b16 - 1) : page.bytemap[i + 1] = 0})
    ELSE -1

firstFreeSlotInPage(m, pid) ==
  Then(GetPage(m, pid), LAMBDA g :
    Then(FreePage(g, pid, FALSE), LAMBDA f : [f EXCEPT !.n = FirstZero(g.frames[g.fi].Data)]))

\* --------------------------------------------------- list surgery
\* the unlink loop without its step "prev = curNext": unless the first page
\* read points at the target, the loop reads the same page for ever
UnlinkWalkStuck(m, prev, target, seen) ==
  IF prev = invalidPage THEN m
  ELSE Then(pageNext(m, prev), LAMBDA c :
         IF c.ret = target
           THEN Then(pageNext(c, target), LAMBDA t : pageSetNext(t, prev, t.ret))
           ELSE Fail(c, "hang"))

\* A walk that comes back to a page it already left repeats for ever (the
\* loops of unlinkFromWithSpace / unlinkFromFull keep no visited set): err "hang".
RECURSIVE UnlinkWalk(_, _, _, _)
UnlinkWalk(m, prev, target, seen) ==
  IF prev = invalidPage THEN m
  ELSE IF prev \in seen THEN Fail(m, "hang")
  ELSE Then(pageNext(m, prev), LAMBDA c :
         IF c.ret = target
           THEN Then(pageNext(c, target), LAMBDA t : pageSetNext(t, prev, t.ret))
           ELSE UnlinkWalk(c, c.ret, target, seen \cup {prev}))

unlinkFromWithSpace(m, target) ==
  Then(headerFirstWithSpace(m), LAMBDA h :
    IF h.ret = invalidPage THEN h
    ELSE IF h.ret = target
      THEN Then(pageNext(h, h.ret), LAMBDA nx : headerSetFirstWithSpace(nx, nx.ret))
    ELSE UnlinkWalk(h, h.ret, target, {}))

prependToFullList(m, pid) ==
  IF m.HeaderPageId = invalidPage THEN Fail(m, "header not initialized")
  ELSE Then(headerFirstFull(m), LAMBDA h :
         IF h.ret = pid THEN h
         ELSE Then(pageSetNext(h, pid, h.ret), LAMBDA n : headerSetFirstFull(n, pid)))

unlinkFromFull(m, target) ==
  IF m.HeaderPageId = invalidPage THEN m
  ELSE Then(headerFirstFull(m), LAMBDA h :
         IF h.ret = invalidPage THEN h
         ELSE IF h.ret = target
           THEN Then(pageNext(h, h.ret), LAMBDA nx : headerSetFirstFull(nx, nx.ret))
         ELSE UnlinkWalk(h, h.ret, target, {}))

\* the firstWithSpace read that opens prependToWithSpace: FreePage error ignored
headerFirstWithSpaceIgn(m) ==
  Then(GetPage(m, m.HeaderPageId), LAMBDA g :
    [Ignore(FreePage(g, m.HeaderPageId, FALSE), "") EXCEPT !.ret = g.frames[g.fi].Data.b8])

\* prependToWithSpace without the "already the head" test
prependToWithSpaceUnguarded(m, pid) ==
  IF m.HeaderPageId = invalidPage THEN Fail(m, "header not initialized")
  ELSE Then(headerFirstWithSpaceIgn(m), LAMBDA h :
         Then(pageSetNext(h, pid, h.ret), LAMBDA n : headerSetFirstWithSpace(n, pid)))

prependToWithSpace(m, pid) ==
  IF m.HeaderPageId = invalidPage THEN Fail(m, "header not initialized")
  ELSE Then(headerFirstWithSpaceIgn(m), LAMBDA h :
         IF h.ret = pid THEN h
         ELSE Then(pageSetNext(h, pid, h.ret), LAMBDA n : headerSetFirstWithSpace(n, pid)))

\* ------------------------------------------------------- addDataPage
\* the allocation cap of the model: a call that would grow segment 0 beyond
\* MaxPages pages is not taken (err "cap" disables the action)
AllocateCapped(m) ==
  Then(AllocatePage(m), LAMBDA a : IF Len(a.bitmaps[0]) > MaxPages THEN Fail(m, "cap") ELSE a)

\* first half: allocate and initialise the data page
addDataPageInit(m) ==
  Then(AllocateCapped(m), LAMBDA a :
    IF computeSlotsPerPage(PageSize, RecordSize) <= 0 THEN Fail(a, "page too small for records")
    ELSE Then(GetPage(a, a.ret), LAMBDA g :
           Then(FreePage([g EXCEPT !.frames[g.fi].Data.b0 = StoredPid(invalidPage),
                                   !.frames[g.fi].Data.b8 = StoredPid(invalidPage),
                                   !.frames[g.fi].Data.b16 = computeSlotsPerPage(PageSize, RecordSize),
                                   !.frames[g.fi].Data.bytemap =
                                      [i \in 1..computeSlotsPerPage(PageSize, RecordSize) |-> 0],
                                   !.frames[g.fi].Dirty = TRUE], a.ret, TRUE),
                LAMBDA f : [f EXCEPT !.ret = a.ret, !.newPages = @ \cup {a.ret}])))

\* second half, no header yet: allocate the header page, persist its location
addDataPageNewHeader(m, pid) ==
  Then(AllocateCapped(m), LAMBDA a :
    Then(GetPage(a, a.ret), LAMBDA g :
      Then(FreePage([g EXCEPT !.frames[g.fi].Data.b0 = StoredPid(invalidPage),
                              !.frames[g.fi].Data.b8 = StoredPid(pid),
                              !.frames[g.fi].Dirty = TRUE], a.ret, TRUE),
           LAMBDA f : [f EXCEPT !.HeaderPageId = a.ret, !.hdrFile = StoredPid(a.ret)])))

\* second half, header exists: the new page becomes head of the with-space
\* list and its next pointer takes the old head
addDataPageLink(m, pid) ==
  Then(GetPage(m, m.HeaderPageId), LAMBDA g :
    Then(FreePage([g EXCEPT !.frames[g.fi].Data.b8 = StoredPid(pid),
                            !.frames[g.fi].Dirty = TRUE], m.HeaderPageId, TRUE),
         LAMBDA f :
           Then(GetPage(f, pid), LAMBDA n :
             FreePage([n EXCEPT !.frames[n.fi].Data.b8 = g.frames[g.fi].Data.b8,
                                !.frames[n.fi].Dirty = TRUE], pid, TRUE))))

addDataPage(m) ==
  Then(addDataPageInit(m), LAMBDA i :
    Then(IF i.HeaderPageId = invalidPage
           THEN addDataPageNewHeader(i, i.ret) ELSE addDataPageLink(i, i.ret),
         LAMBDA l : [l EXCEPT !.SlotsPerPage = computeSlotsPerPage(PageSize, RecordSize),
                              !.ret = i.ret]))

EnsureHeader(m) == IF m.HeaderPageId # invalidPage THEN m ELSE addDataPage(m)

\* ------------------------------------------------------ InsertRecord
RID(pid, slot) == [PageId |-> pid, SlotIdx |-> slot]

AllOnes(page) == \A i \in 1..page.b16 : page.bytemap[i] # 0

\* InsertRecord without the "if full" branch: a filled page stays where it is
RelinkNever(m, pid, full) == m

\* "if full": unlink from the with-space list, prepend to the full list
Relink(m, pid, full) ==
  IF ~full THEN m
  ELSE Then(unlinkFromWithSpace(m, pid), LAMBDA u : prependToFullList(u, pid))

\* the body of "if slot >= 0": write the record, flip the bytemap byte, relink
InsertAt(m, rec, pid, slot) ==
  Then(GetPage(m, pid), LAMBDA g :
    IF ~Ok(WriteRecordToBuffer(g, rec, g.fi, g.frames[g.fi].Data.b16, slot))
      THEN Ignore(FreePage(g, pid, FALSE),
                  WriteRecordToBuffer(g, rec, g.fi, g.frames[g.fi].Data.b16, slot).err)
      ELSE Then(FreePage([WriteRecordToBuffer(g, rec, g.fi, g.frames[g.fi].Data.b16, slot)
                            EXCEPT !.frames[g.fi].Data.bytemap[slot + 1] = 1,
                                   !.frames[g.fi].Dirty = TRUE], pid, TRUE),
                LAMBDA f :
                  Then(Relink(f, pid, AllOnes(f.frames[g.fi].Data)),
                       LAMBDA q : [q EXCEPT !.rid = RID(pid, slot)])))

\* the traversal "for pid := cur; pid != invalidPage;" with its visited map
RECURSIVE InsertWalk(_, _, _, _)
InsertWalk(m, rec, pid, visited) ==
  IF pid = invalidPage THEN Fail(m, "could not insert record")
  ELSE IF pid \in visited
    THEN Then(addDataPage(m), LAMBDA a : InsertWalk(a, rec, a.ret, visited))
  ELSE Then(firstFreeSlotInPage(m, pid), LAMBDA s :
         IF s.n >= 0 THEN InsertAt(s, rec, pid, s.n)
         ELSE Then(pageNext(s, pid), LAMBDA nx :
                Then(IF nx.ret = invalidPage THEN addDataPage(nx) ELSE nx,
                     LAMBDA a : InsertWalk(a, rec, a.ret, visited \cup {pid}))))

\* InsertRecord once SlotsPerPage is known
InsertFrom(m, rec) ==
  Then(IF m.HeaderPageId = invalidPage THEN addDataPage(m) ELSE m, LAMBDA m1 :
    Then(headerFirstWithSpace(m1), LAMBDA c :
      Then(IF c.ret = invalidPage THEN addDataPage(c) ELSE c,
           LAMBDA a : InsertWalk(a, rec, a.ret, {}))))

InsertRecord(m, rec) ==
  InsertFrom([m EXCEPT !.SlotsPerPage =
                IF @ = 0 THEN computeSlotsPerPage(PageSize, RecordSize) ELSE @], rec)

\* ------------------------------------------------------ DeleteRecord
\* DeleteRecord without the unlink from the full list
PrependOnly(m, pid) ==
  IF m.n < 0 THEN m ELSE prependToWithSpace(m, pid)

\* "if slot >= 0": unlink from the full list if present, prepend to with-space
MoveToWithSpace(m, pid) ==
  IF m.n < 0 THEN m
  ELSE Then(unlinkFromFull(m, pid), LAMBDA u : prependToWithSpace(u, pid))

DeleteRecord(m, rid) ==
  Then(GetPage(m, rid.PageId), LAMBDA g :
    IF rid.SlotIdx < 0 \/ rid.SlotIdx >= g.frames[g.fi].Data.b16
      THEN Ignore(FreePage(g, rid.PageId, FALSE), "invalid slot index")
    ELSE IF g.frames[g.fi].Data.bytemap[rid.SlotIdx + 1] = 0
      THEN Ignore(FreePage(g, rid.PageId, FALSE), "slot already free")
    ELSE Then(FreePage([g EXCEPT !.frames[g.fi].Data.bytemap[rid.SlotIdx + 1] = 0,
                                 !.frames[g.fi].Data.payload[rid.SlotIdx + 1] = ZeroCell,
                                 !.frames[g.fi].Dirty = TRUE], rid.PageId, TRUE),
              LAMBDA f :
                Then(firstFreeSlotInPage(f, rid.PageId),
                     LAMBDA s : MoveToWithSpace(s, rid.PageId))))

\* ------------------------------------------- ScanRecords / AllPageIds
\* scanPage: what the callback receives for one page, in slot order
RECURSIVE SlotsInOrder(_, _, _)
SlotsInOrder(pid, page, i) ==
  IF i >= page.b16 THEN <<>>
  ELSE (IF page.bytemap[i + 1] = 1
          THEN <<[rid |-> RID(pid, i), rec |-> ReadFromBuffer(page.payload[i + 1])]>>
          ELSE <<>>) \o SlotsInOrder(pid, page, i + 1)

scanPage(m, pid) ==
  Then(GetPage(m, pid), LAMBDA g :
    Then(FreePage(g, pid, FALSE), LAMBDA f :
      [f EXCEPT !.out = @ \o SlotsInOrder(pid, g.frames[g.fi].Data, 0),
                !.ret = g.frames[g.fi].Data.b8]))

\* one list walk of ScanRecords; the visited map is shared by both walks
RECURSIVE ScanWalk(_, _)
ScanWalk(m, pid) ==
  IF pid = invalidPage \/ pid \in m.visited THEN m
  ELSE Then(scanPage([m EXCEPT !.visited = @ \cup {pid}], pid), LAMBDA p : ScanWalk(p, p.ret))

ScanRecords(m) ==
  IF m.HeaderPageId = invalidPage THEN m
  ELSE Then(headerFirstWithSpace(m), LAMBDA w :
         Then(ScanWalk([w EXCEPT !.visited = {}, !.out = <<>>], w.ret), LAMBDA a :
           Then(headerFirstFull(a), LAMBDA h : ScanWalk(h, h.ret))))

\* one list walk of AllPageIds
RECURSIVE PageIdWalk(_, _)
PageIdWalk(m, pid) ==
  IF pid = invalidPage \/ pid \in m.visited THEN m
  ELSE Then(pageNext([m EXCEPT !.visited = @ \cup {pid}, !.out = Append(@, pid)], pid),
            LAMBDA nx : PageIdWalk(nx, nx.ret))

\* AllPageIds with a visited map of its own for each of the two walks
AllPageIdsPerList(m) ==
  IF m.HeaderPageId = invalidPage THEN [m EXCEPT !.out = <<>>]
  ELSE Then(headerFirstWithSpace(m), LAMBDA w :
         Then(PageIdWalk([w EXCEPT !.visited = {}, !.out = <<>>], w.ret), LAMBDA a :
           Then(headerFirstFull(a), LAMBDA h : PageIdWalk([h EXCEPT !.visited = {}], h.ret))))

AllPageIds(m) ==
  IF m.HeaderPageId = invalidPage THEN [m EXCEPT !.out = <<>>]
  ELSE Then(headerFirstWithSpace(m), LAMBDA w :
         Then(PageIdWalk([w EXCEPT !.visited = {}, !.out = <<>>], w.ret), LAMBDA a :
           Then(headerFirstFull(a), LAMBDA h : PageIdWalk(h, h.ret))))

\* ------------------------------------------------------------ catalog
\* the engine state an operation starts from, as one record; the fields after
\* policy are the locals and results of the call
Mach == [files |-> files, bitmaps |-> bitmaps, frames |-> frames, repl |-> repl,
         lookup |-> lookup, policy |-> policy, DMMaxFileCount |-> dmMaxFileCount,
         err |-> "", ret |-> invalidPage, fi |-> 0, n |-> 0, data |-> ZeroPage,
         rid |-> RID(invalidPage, 0), out |-> <<>>, visited |-> {}, newPages |-> {},
         HeaderPageId |-> invalidPage, SlotsPerPage |-> 0, hdrFile |-> invalidPage,
         peak |-> 0]

\* the receiver rm of a RelationManager method
OnRel(m, t) == [m EXCEPT !.HeaderPageId = tables[t].HeaderPageId,
                         !.SlotsPerPage = tables[t].SlotsPerPage]

\* loadHeaderLocation reading the two int32 fields in the wrong order
NewRelationManagerSwapped(m, name, hdrs) ==
  IF name \in DOMAIN hdrs
    THEN [m EXCEPT !.HeaderPageId = PID(hdrs[name].PageIdx, hdrs[name].FileIdx),
                   !.SlotsPerPage = computeSlotsPerPage(PageSize, RecordSize)]
    ELSE [m EXCEPT !.HeaderPageId = invalidPage, !.SlotsPerPage = 0]

\* NewRelationManager: header location from <name>.hdr when the file exists
\* (hdrs: the .hdr files of the data directory)
NewRelationManagerIn(m, name, hdrs) ==
  IF name \in DOMAIN hdrs
    THEN [m EXCEPT !.HeaderPageId = hdrs[name],
                   !.SlotsPerPage = IF hdrs[name] # invalidPage
                                      THEN computeSlotsPerPage(PageSize, RecordSize) ELSE 0]
    ELSE [m EXCEPT !.HeaderPageId = invalidPage, !.SlotsPerPage = 0]

NewRelationManager(m, name) == NewRelationManagerIn(m, name, hdrFiles)

\* AddTable without the check for a table of that name
AddTableAgain(m, name) == EnsureHeader(NewRelationManager(m, name))

AddTable(m, name) ==
  IF name \in DOMAIN tables THEN Fail(m, "table exists")
  ELSE EnsureHeader(NewRelationManager(m, name))

\* RemoveTable's loop over the page ids, stopping at the first error
RECURSIVE FreeAll(_, _, _)
FreeAll(m, pids, i) ==
  IF i > Len(pids) THEN m
  ELSE Then(DiskFreePage(m, pids[i]), LAMBDA f : FreeAll(f, pids, i + 1))

RemoveTable(m, name) ==
  IF name \notin DOMAIN tables THEN Fail(m, "table not found")
  ELSE Then(AllPageIds(OnRel(m, name)), LAMBDA a : FreeAll(a, a.out, 1))

\* RemoveAllTables: RemoveTable for each of the names collected from the map
\* (names, in the order the map was ranged over), stopping at the first
\* error; n is the number of tables removed
RECURSIVE RemoveAllFrom(_, _, _)
RemoveAllFrom(m, q, i) ==
  IF i > Len(q) THEN [m EXCEPT !.n = Len(q)]
  ELSE Then([RemoveTable(m, q[i]) EXCEPT !.n = i - 1], LAMBDA r : RemoveAllFrom(r, q, i + 1))

RemoveAllTables(m, q) == RemoveAllFrom(m, q, 1)

\* ------------------------------------------------- state and transitions
\* function update that also extends the domain (a Go map assignment)
Put(f, k, v) == [x \in DOMAIN f \cup {k} |-> IF x = k THEN v ELSE f[x]]

\* delete(map, k)
Drop(f, k) == [x \in DOMAIN f \ {k} |-> f[x]]

\* the record whose every column holds v
Rec(v) == [c \in 1..NCols |-> v]

\* the disk and buffer managers after a call
Engine(m) ==
  /\ files' = m.files
  /\ bitmaps' = m.bitmaps
  /\ frames' = m.frames
  /\ repl' = m.repl
  /\ lookup' = m.lookup
  /\ policy' = m.policy

\* the relation manager of table t after a call, and <t>.hdr if it was written
RelAfter(m, t) ==
  /\ tables' = Put(tables, t, [HeaderPageId |-> m.HeaderPageId,
                               SlotsPerPage |-> m.SlotsPerPage,
                               Columns |-> IF t \in DOMAIN tables
                                             THEN tables[t].Columns ELSE Columns])
  /\ hdrFiles' = IF m.hdrFile # invalidPage THEN Put(hdrFiles, t, m.hdrFile) ELSE hdrFiles
  /\ owned' = Put(owned, t, (IF t \in DOMAIN owned THEN owned[t] ELSE {}) \cup m.newPages)

\* a call that never returned: nothing runs after it
Hung == last.err = "hang"

LiveSet(t) == IF t \in DOMAIN live THEN BagToSet(live[t]) ELSE {}

Up == running /\ ~Hung /\ left > 0

Count == left' = left - 1

\* the history of a call: what it returned, and in pre the most pins it held at once
Note(op, t, r) == last' = [op |-> op, err |-> r.err, t |-> t, out |-> r.out, pre |-> <<r.peak>>]

\* the state after construction on an empty data directory; n operations follow
InitArg(n, F, A) ==
  /\ RecordSize \in RecordSizes
  /\ policy \in Policies
  /\ files = [i \in 0..(DMMaxFileCount - 1) |-> <<>>]
  /\ bitmaps = [i \in 0..(DMMaxFileCount - 1) |-> <<>>]
  /\ frames = [i \in 1..BMBufferCount |-> emptyFrame]
  /\ repl = <<>>
  /\ lookup = <<>>
  /\ tables = <<>>
  /\ hdrFiles = <<>>
  /\ saveFile = [exists |-> FALSE, entries |-> <<>>]
  /\ running = TRUE
  /\ live = <<>>
  /\ acq = <<>>
  /\ owned = <<>>
  /\ last = [op |-> "Init", err |-> "", t |-> "", out |-> <<>>, pre |-> <<>>]
  /\ left = n
  /\ dmMaxFileCount \in F
  /\ used = <<>>
  /\ evicted = <<>>
  /\ written = <<>>
  /\ pc = [c \in Callers |-> idle]
  /\ mu = 0
  /\ alloc = EmptyBag
  /\ names = {}
  /\ saved = <<>>
  /\ arg \in A

\* no function is applied on its own
InitOf(n, F) == InitArg(n, F, {<<>>})

\* the engine is configured with DMMaxFileCount segment files
InitWith(n) == InitOf(n, {DMMaxFileCount})

Init == InitWith(MaxOps)

\* DBManager.AddTable
DoAddTable(name) ==
  /\ Up
  /\ \E r \in {AddTable(Mach, name)} :
       /\ r.err # "cap"
       /\ Engine(r)
       /\ IF Ok(r)
            THEN RelAfter(r, name) /\ live' = Put(live, name, EmptyBag)
            ELSE UNCHANGED <<tables, hdrFiles, owned, live>>
       /\ Note("AddTable", name, r)
  /\ Count
  /\ UNCHANGED <<RecordSize, saveFile, running, acq, outside>>

\* RelationManager.InsertRecord of a record whose columns all hold v
DoInsertRecord(t, v) ==
  /\ Up
  /\ t \in DOMAIN tables
  /\ \E r \in {InsertRecord(OnRel(Mach, t), Rec(v))} :
       /\ r.err # "cap"
       /\ Engine(r)
       /\ RelAfter(r, t)
       /\ live' = IF Ok(r) THEN Put(live, t, live[t] (+) SetToBag({<<r.rid, Rec(v)>>}))
                  ELSE live
       /\ Note("Insert", t, r)
  /\ Count
  /\ UNCHANGED <<RecordSize, saveFile, running, acq, outside>>

\* RelationManager.DeleteRecord of a live record e = <<rid, value>>
DoDeleteRecord(t, e) ==
  /\ Up
  /\ t \in DOMAIN tables
  /\ \E r \in {DeleteRecord(OnRel(Mach, t), e[1])} :
       /\ Engine(r)
       /\ RelAfter(r, t)
       /\ live' = IF r.err \in {"invalid slot index", "slot already free"} THEN live
                  ELSE Put(live, t, live[t] (-) SetToBag({e}))
       /\ Note("Delete", t, r)
  /\ Count
  /\ UNCHANGED <<RecordSize, saveFile, running, acq, outside>>

\* RelationManager.ScanRecords with a callback that collects what it is given
DoScanRecords(t) ==
  /\ Up
  /\ t \in DOMAIN tables
  /\ \E r \in {ScanRecords(OnRel(Mach, t))} :
       /\ Engine(r)
       /\ Note("Scan", t, r)
  /\ Count
  /\ UNCHANGED <<RecordSize, tables, hdrFiles, saveFile, running, live, acq, outside, owned>>

NextHeap ==
  \/ DoAddTable("T1")
  \/ \E v \in RecVals : DoInsertRecord("T1", v)
  \/ \E e \in LiveSet("T1") : DoDeleteRecord("T1", e)
  \/ DoScanRecords("T1")

SpecHeap == Init /\ [][NextHeap]_vars

\* ------------------------------------------- what the lists look like
\* the bytes GetPage would hand out for pid: the resident frame, else the disk
View(pid) ==
  IF pid \in DOMAIN lookup THEN frames[lookup[pid]].Data ELSE FilePage(files, pid)

OnDisk(pid) ==
  /\ pid.FileIdx >= 0 /\ pid.FileIdx < DMMaxFileCount
  /\ pid.PageIdx >= 0 /\ pid.PageIdx < Len(bitmaps[pid.FileIdx])

\* the pages met when following next pointers from pid
RECURSIVE Chain(_, _)
Chain(pid, seen) ==
  IF pid \in seen \/ ~OnDisk(pid) THEN seen
  ELSE Chain(View(pid).b8, seen \cup {pid})

\* following next pointers from pid comes back to a page already visited
RECURSIVE Cyclic(_, _)
Cyclic(pid, seen) ==
  IF pid = invalidPage \/ ~OnDisk(pid) THEN FALSE
  ELSE IF pid \in seen THEN TRUE
  ELSE Cyclic(View(pid).b8, seen \cup {pid})

FreeHead(t) == View(tables[t].HeaderPageId).b8
FullHead(t) == View(tables[t].HeaderPageId).b0
HasHeader(t) == t \in DOMAIN tables /\ tables[t].HeaderPageId # invalidPage
FreeList(t) == Chain(FreeHead(t), {})
FullList(t) == Chain(FullHead(t), {})
DataPages(t) == IF t \in DOMAIN owned THEN owned[t] ELSE {}

\* the bag of the elements of a sequence
SeqToBag(q) ==
  [e \in {q[i] : i \in 1..Len(q)} |-> Cardinality({i \in 1..Len(q) : q[i] = e})]

\* what a scan delivered, as a bag of <<rid, value>>
Scanned == SeqToBag([i \in 1..Len(last.out) |-> <<last.out[i].rid, last.out[i].rec>>])

\* C1: a ScanRecords call on a relation delivers exactly the bag of records
\* inserted and not since deleted, each under the RecordId InsertRecord returned
C1_ScanIsLive ==
  (last.op = "Scan" /\ last.err = "") => Scanned = live[last.t]

\* C5: every data page allocated for a relation is on exactly one of the
\* free-list and the full-list of its header
C5_ExactlyOneList ==
  \A t \in DOMAIN tables :
    (HasHeader(t) /\ ~Hung) =>
      \A p \in DataPages(t) : (p \in FreeList(t)) # (p \in FullList(t))

\* C6: after a completed InsertRecord or DeleteRecord a data page is on the
\* full-list iff all S bytes of its bytemap are 1, and a page with no free
\* slot is not on the free-list
C6_FullIffAllOnes ==
  (last.op \in {"Insert", "Delete"} /\ last.err = "") =>
    \A p \in DataPages(last.t) :
      /\ (p \in FullList(last.t)) <=> AllOnes(View(p))
      /\ AllOnes(View(p)) => p \notin FreeList(last.t)

\* C7: the free-list and the full-list of a relation are acyclic
C7_Acyclic ==
  \A t \in DOMAIN tables :
    (HasHeader(t) /\ ~Hung) => ~Cyclic(FreeHead(t), {}) /\ ~Cyclic(FullHead(t), {})

\* ---------------------------------------------- the buffer pool alone
\* the page ids a caller passes: the pages of segment 0 and one beyond them
BufPids == {PID(0, i) : i \in 0..MaxBufPages}

\* history of the pins: acq[pid] for every page of the lookup map is the number
\* of successful GetPage calls minus FreePage calls since pid was loaded; it
\* stays at -1 once the caller has released more often than acquired
AcqAfter(m, pid, delta) ==
  [p \in DOMAIN m.lookup |->
     IF p \notin DOMAIN lookup \/ p \notin DOMAIN acq THEN 1
     ELSE IF p # pid THEN acq[p]
     ELSE IF acq[p] < 0 \/ acq[p] + delta < 0 THEN -1
     ELSE acq[p] + delta]

\* the resident dirty pages with their bytes
DirtyPages == {<<frames[i].PageId, frames[i].Data>> :
                 i \in {j \in 1..BMBufferCount : frames[j].Dirty /\ frames[j].PageId # invalidPage}}

BufNote(op, r, pre) == last' = [op |-> op, err |-> r.err, t |-> "", out |-> <<>>, pre |-> pre]

\* which way a GetPage(pid) call goes from the current state
GetPageKind(pid) ==
  IF pid \in DOMAIN lookup THEN "hit"
  ELSE IF FreeFrames(Mach) # {} THEN "free"
  ELSE "evict"

\* the pages that left the pool dirty, with the bytes they had then, after a
\* GetPage(pid) that ended in state r: a victim the lookup map knew and no
\* longer knows was written back and dropped; pid itself is back in the pool
\* when the call succeeded
EvictedAfter(r, pid) ==
  LET v == IF GetPageKind(pid) = "evict" /\ repl # <<>> THEN Victim(Mach) ELSE 0
      vp == IF v = 0 THEN invalidPage ELSE frames[v].PageId
      out == IF /\ v # 0 /\ frames[v].Dirty
                /\ vp \in DOMAIN lookup /\ lookup[vp] = v
                /\ vp \notin DOMAIN r.lookup
               THEN Put(evicted, vp, frames[v].Data) ELSE evicted
  IN IF Ok(r) THEN Drop(out, pid) ELSE out

BufRest == UNCHANGED <<RecordSize, tables, hdrFiles, saveFile, running, live, owned, diskRun,
                       catRun>>

\* DiskManager.AllocatePage called by the user of the pool
BufAllocatePage ==
  /\ Up
  /\ Len(bitmaps[0]) < MaxBufPages
  /\ \E r \in {AllocatePage(Mach)} : Engine(r) /\ BufNote("AllocatePage", r, <<>>)
  /\ Count
  /\ UNCHANGED <<acq, used, evicted>>
  /\ BufRest

\* BufferManager.GetPage(pid); a loaded page starts a new count.  The history
\* keeps the page asked for and the way the call went.
BufGetPage(pid) ==
  /\ Up
  /\ pid \in DOMAIN lookup => frames[lookup[pid]].PinCount < MaxPin
  /\ \E r \in {GetPage(Mach, pid)} :
       /\ Engine(r)
       /\ acq' = IF Ok(r) /\ pid \notin DOMAIN lookup
                   THEN [p \in DOMAIN r.lookup |->
                           IF p = pid \/ p \notin DOMAIN acq THEN 1 ELSE acq[p]]
                   ELSE AcqAfter(r, pid, IF Ok(r) THEN 1 ELSE 0)
       /\ used' = IF Ok(r) THEN Append(SeqRemove(used, r.fi), r.fi) ELSE used
       /\ evicted' = EvictedAfter(r, pid)
       /\ last' = [op |-> "GetPage", err |-> r.err, t |-> "",
                   out |-> <<GetPageKind(pid)>>, pre |-> pid]
  /\ Count
  /\ BufRest

\* BufferManager.FreePage(pid, valdirty)
BufFreePage(pid, valdirty) ==
  /\ Up
  /\ \E r \in {FreePage(Mach, pid, valdirty)} :
       /\ Engine(r)
       /\ acq' = AcqAfter(r, pid, IF Ok(r) THEN -1 ELSE 0)
       /\ BufNote("FreePage", r, <<>>)
  /\ Count
  /\ UNCHANGED <<used, evicted>>
  /\ BufRest

\* the holder of a pinned frame writes into its bytes
BufModify(pid, v) ==
  /\ Up
  /\ pid \in DOMAIN lookup
  /\ frames[lookup[pid]].PinCount > 0
  /\ frames[lookup[pid]].Data.b16 # v
  /\ frames' = [frames EXCEPT ![lookup[pid]].Data.b16 = v]
  /\ last' = [op |-> "Modify", err |-> "", t |-> "", out |-> <<>>, pre |-> <<>>]
  /\ Count
  /\ UNCHANGED <<files, bitmaps, repl, lookup, policy, acq, used, evicted>>
  /\ BufRest

\* BufferManager.SetCurrentReplacementPolicy
BufSetPolicy(p) ==
  /\ Up
  /\ p # policy
  /\ \E r \in {SetCurrentReplacementPolicy(Mach, p)} : Engine(r) /\ BufNote("SetPolicy", r, <<>>)
  /\ Count
  /\ UNCHANGED <<acq, used, evicted>>
  /\ BufRest

\* BufferManager.FlushBuffers
BufFlushBuffers ==
  /\ Up
  /\ \E r \in {FlushBuffers(Mach)} :
       /\ Engine(r)
       /\ acq' = AcqAfter(r, invalidPage, 0)
       /\ used' = IF Ok(r) THEN <<>> ELSE used
       /\ evicted' = <<>>
       /\ BufNote("FlushBuffers", r, DirtyPages)
  /\ Count
  /\ BufRest

NextBuf ==
  \/ BufAllocatePage
  \/ \E pid \in BufPids : BufGetPage(pid)
  \/ \E pid \in BufPids, d \in BOOLEAN : BufFreePage(pid, d)
  \/ \E pid \in BufPids, v \in RecVals : BufModify(pid, v)
  \/ \E p \in Policies : BufSetPolicy(p)
  \/ BufFlushBuffers

SpecBuf == Init /\ [][NextBuf]_vars

\* the frames that hold a page
Resident == {i \in 1..BMBufferCount : frames[i].PageId # invalidPage}

\* the place of frame x in the order q
Pos(q, x) == CHOOSE i \in 1..Len(q) : q[i] = x

\* the frame a successful GetPage(pid) handed out
Handed == lookup[last.pre]

\* C4: when FlushBuffers returns without error, every page that was resident
\* and dirty at the call is on disk with the bytes its frame had at the call
C4_FlushWritesDirty ==
  (last.op = "FlushBuffers" /\ last.err = "") =>
    \A e \in last.pre : OnDisk(e[1]) => FilePage(files, e[1]) = e[2]

\* C9: no two frames hold the same non-sentinel PageId
C9_OneFramePerPage ==
  \A i, j \in 1..BMBufferCount :
    (i # j /\ frames[i].PageId # invalidPage) => frames[i].PageId # frames[j].PageId

\* C10: the PinCount of a resident page is the number of successful GetPage
\* calls minus FreePage calls on it since it was loaded, while the caller has
\* not released more often than acquired, and it is never negative
C10_PinCountIsBalance ==
  /\ \A i \in 1..BMBufferCount : frames[i].PinCount >= 0
  /\ \A p \in DOMAIN lookup : acq[p] >= 0 => frames[lookup[p]].PinCount = acq[p]

\* C11: a GetPage call for another page leaves the PageId and the bytes of
\* every frame whose PinCount is greater than 0 as they were
C11_PinnedFrameKept ==
  [][last'.op = "GetPage" =>
       \A i \in 1..BMBufferCount :
         (frames[i].PinCount > 0 /\ frames[i].PageId # last'.pre) =>
           /\ frames'[i].PageId = frames[i].PageId
           /\ frames'[i].Data = frames[i].Data]_vars

\* a GetPage that evicted one frame while the other frame was pinned
C11_Witness ==
  /\ last.op = "GetPage" /\ last.err = "" /\ last.out = <<"evict">>
  /\ \E i \in 1..BMBufferCount :
       i # Handed /\ frames[i].PinCount > 0 /\ frames[i].PageId # invalidPage

\* C12: when every frame holds a page with PinCount > 0, GetPage of a page
\* that is not resident fails with "all frames pinned" and leaves the frames,
\* the lookup map and the ordering list unchanged
C12_AllPinnedFails ==
  [][(/\ last'.op = "GetPage"
      /\ last'.pre \notin DOMAIN lookup
      /\ \A i \in 1..BMBufferCount :
           frames[i].PinCount > 0 /\ frames[i].PageId # invalidPage) =>
       /\ last'.err = "all frames pinned"
       /\ frames' = frames /\ lookup' = lookup /\ repl' = repl]_vars

\* a GetPage of a non-resident page that met a pool of pinned frames
C12_Witness ==
  /\ last.op = "GetPage" /\ last.err = "all frames pinned"
  /\ last.pre \notin DOMAIN lookup
  /\ \A i \in 1..BMBufferCount : frames[i].PinCount > 0 /\ frames[i].PageId # invalidPage

\* C13: FlushBuffers called while a frame has PinCount > 0 returns an error
\* and changes nothing: no frame, not the lookup map, not the list, not the disk
C13_FlushRefusesPinned ==
  [][(last'.op = "FlushBuffers" /\ \E i \in 1..BMBufferCount : frames[i].PinCount > 0) =>
       /\ last'.err # ""
       /\ frames' = frames /\ lookup' = lookup /\ repl' = repl /\ files' = files]_vars

\* C14: under LRU, the frame a miss without a free frame evicts is the
\* resident frame whose last access is the oldest
C14_LRUVictimOldest ==
  [][(/\ policy = "LRU"
      /\ last'.op = "GetPage" /\ last'.err = "" /\ last'.out = <<"evict">>) =>
       \A j \in Resident : Pos(used, lookup'[last'.pre]) <= Pos(used, j)]_vars

\* C15: under MRU, the frame a miss without a free frame evicts is the
\* resident frame whose last access is the most recent
C15_MRUVictimNewest ==
  [][(/\ policy = "MRU"
      /\ last'.op = "GetPage" /\ last'.err = "" /\ last'.out = <<"evict">>) =>
       \A j \in Resident : Pos(used, lookup'[last'.pre]) >= Pos(used, j)]_vars

\* The pool after an eviction whose ReadPage failed.  SpecBuf reaches this
\* state from Init under LRU: AllocatePage once per frame; GetPage of page
\* (0,0), (0,1), ... in this order, which fills frame 1, 2, ...; FreePage of
\* each, page (0,0) with valdirty; GetPage of the page just beyond the end of
\* segment 0.  That call wrote frame 1 back, dropped page (0,0) from the
\* lookup map and then failed in ReadPage: frame 1 still holds page (0,0),
\* still dirty, and the map does not know it.
AfterFailedEviction ==
  /\ RecordSize \in RecordSizes
  /\ policy = "LRU"
  /\ files = [i \in 0..(DMMaxFileCount - 1) |->
                IF i = 0 THEN [k \in 1..BMBufferCount |-> ZeroPage] ELSE <<>>]
  /\ bitmaps = [i \in 0..(DMMaxFileCount - 1) |->
                  IF i = 0 THEN [k \in 1..BMBufferCount |-> 1] ELSE <<>>]
  /\ frames = [i \in 1..BMBufferCount |->
                 [PageId |-> PID(0, i - 1), Data |-> ZeroPage, PinCount |-> 0, Dirty |-> i = 1]]
  /\ repl = [i \in 1..BMBufferCount |-> i]
  /\ lookup = [p \in {PID(0, i - 1) : i \in 2..BMBufferCount} |-> p.PageIdx + 1]
  /\ tables = <<>>
  /\ hdrFiles = <<>>
  /\ saveFile = [exists |-> FALSE, entries |-> <<>>]
  /\ running = TRUE
  /\ live = <<>>
  /\ acq = [p \in {PID(0, i - 1) : i \in 2..BMBufferCount} |-> 0]
  /\ owned = <<>>
  /\ last = [op |-> "GetPage", err |-> "invalid page idx", t |-> "",
             out |-> <<"evict">>, pre |-> PID(0, BMBufferCount)]
  /\ dmMaxFileCount = DMMaxFileCount
  /\ used = [i \in 1..BMBufferCount |-> i]
  /\ evicted = [p \in {PID(0, 0)} |-> ZeroPage]
  /\ written = <<>>
  /\ pc = [c \in Callers |-> idle]
  /\ mu = 0
  /\ alloc = EmptyBag
  /\ names = {}
  /\ saved = <<>>
  /\ arg = <<>>

\* the pool calls that follow such a failed eviction
InitStale == AfterFailedEviction /\ left = MaxStaleOps

SpecStale == InitStale /\ [][NextBuf]_vars

\* C16: a page that GetPage evicted dirty comes back, at the next GetPage that
\* loads it, with the bytes its frame had when it was evicted; the write-back
\* itself puts those bytes on disk under the victim's PageId
C16_EvictedBytesReturn ==
  [][(last'.op = "GetPage" /\ last'.err = "") =>
       /\ \A p \in DOMAIN evicted' \ DOMAIN evicted : FilePage(files', p) = evicted'[p]
       /\ (last'.pre \notin DOMAIN lookup /\ last'.pre \in DOMAIN evicted) =>
            frames'[lookup'[last'.pre]].Data = evicted[last'.pre]]_vars

\* ------------------------------------------------ the disk manager alone
\* the page ids a caller passes: the pages of segment 0, one beyond them, and
\* one whose file index is out of range
DiskPids == {PID(0, i) : i \in 0..MaxDiskPages} \cup {PID(DMMaxFileCount, 0)}

\* the byte slices a caller writes: a whole page, the first 8 bytes only, and
\* a slice longer than a page
WriteInputs ==
  {[ZeroPage EXCEPT !.b16 = v] : v \in RecVals}
    \cup {[k \in {"b0"} |-> PID(1, 0)]}
    \cup {[k \in PageFields \cup {"over"} |-> IF k = "over" THEN 1 ELSE ZeroPage[k]]}

\* what a page holds after data was written to it
Padded(data) == [k \in PageFields |-> IF k \in DOMAIN data THEN data[k] ELSE ZeroPage[k]]

DiskRest == UNCHANGED <<frames, repl, lookup, policy, RecordSize, tables, hdrFiles, saveFile,
                        running, live, acq, owned, dmMaxFileCount, used, evicted, pc, mu, alloc,
                        catRun>>

\* DiskManager.AllocatePage; the history keeps the PageId it returned
DiskAllocatePage ==
  /\ Up
  /\ Len(bitmaps[0]) < MaxDiskPages \/ \E i \in 1..Len(bitmaps[0]) : bitmaps[0][i] = 0
  /\ \E r \in {AllocatePage(Mach)} :
       /\ files' = r.files /\ bitmaps' = r.bitmaps
       /\ last' = [op |-> "AllocatePage", err |-> r.err, t |-> "",
                   out |-> IF Ok(r) THEN <<r.ret>> ELSE <<>>, pre |-> <<>>]
  /\ Count
  /\ UNCHANGED written
  /\ DiskRest

\* DiskManager.FreePage(pid)
DiskFree(pid) ==
  /\ Up
  /\ \E r \in {DiskFreePage(Mach, pid)} :
       /\ files' = r.files /\ bitmaps' = r.bitmaps
       /\ last' = [op |-> "FreePage", err |-> r.err, t |-> "", out |-> <<>>, pre |-> pid]
  /\ Count
  /\ UNCHANGED written
  /\ DiskRest

\* DiskManager.WritePage(pid, data); the history keeps what the page now holds
DiskWrite(pid, data) ==
  /\ Up
  /\ \E r \in {WritePage(Mach, pid, data)} :
       /\ files' = r.files /\ bitmaps' = r.bitmaps
       /\ written' = IF Ok(r) THEN Put(written, pid, Padded(data)) ELSE written
       /\ last' = [op |-> "WritePage", err |-> r.err, t |-> "", out |-> <<>>, pre |-> pid]
  /\ Count
  /\ DiskRest

\* DiskManager.ReadPage(pid); the history keeps the bytes it returned
DiskRead(pid) ==
  /\ Up
  /\ \E r \in {ReadPage(Mach, pid)} :
       /\ files' = r.files /\ bitmaps' = r.bitmaps
       /\ last' = [op |-> "ReadPage", err |-> r.err, t |-> "",
                   out |-> IF Ok(r) THEN <<r.data>> ELSE <<>>, pre |-> pid]
  /\ Count
  /\ UNCHANGED written
  /\ DiskRest

NextDisk ==
  \/ DiskAllocatePage
  \/ \E pid \in DiskPids : DiskFree(pid)
  \/ \E pid \in DiskPids, data \in WriteInputs : DiskWrite(pid, data)
  \/ \E pid \in DiskPids : DiskRead(pid)

\* a DiskManager on an empty directory, configured with 0..DMMaxFileCount files
InitDisk == InitOf(MaxDiskOps, 0..DMMaxFileCount)

SpecDisk == InitDisk /\ [][NextDisk]_vars

\* the places of the zero bytes of a bitmap
Zeros(bmp) == {i \in 1..Len(bmp) : bmp[i] = 0}

\* the segments AllocatePage may use that have a free page
WithFree == {i \in 0..(dmMaxFileCount - 1) : Zeros(bitmaps[i]) # {}}

\* C17: AllocatePage returns the free page with the smallest index of the
\* lowest segment that has one and marks it used, and no file grows; only
\* when no bitmap has a zero byte a segment grows, by one page, whose index
\* is the length the bitmap had
C17_FirstFit ==
  [][(last'.op = "AllocatePage" /\ last'.err = "") =>
       LET p == last'.out[1]
       IN IF WithFree # {}
            THEN /\ p.FileIdx = Min(WithFree)
                 /\ p.PageIdx + 1 = Min(Zeros(bitmaps[p.FileIdx]))
                 /\ bitmaps' = [bitmaps EXCEPT ![p.FileIdx][p.PageIdx + 1] = 1]
                 /\ \A i \in DOMAIN files : Len(files'[i]) = Len(files[i])
            ELSE /\ p.PageIdx = Len(bitmaps[p.FileIdx])
                 /\ bitmaps' = [bitmaps EXCEPT ![p.FileIdx] = Append(@, 1)]
                 /\ files' = [files EXCEPT ![p.FileIdx] = Append(@, ZeroPage)]]_vars

\* AllocatePage handed out again a page that FreePage had released, while
\* another page released later in the file stays free
C17_Witness ==
  /\ last.op = "AllocatePage" /\ last.err = ""
  /\ \E i \in 1..Len(bitmaps[0]) : bitmaps[0][i] = 0 /\ last.out[1].PageIdx + 1 < i

\* C18: AllocatePage fails, with the no-space error, exactly when there is no
\* segment it may use (a segment that it may use always takes one more page);
\* a PageId it returns has a file index below DMMaxFileCount; a failed call
\* leaves the bitmaps and the files as they were
C18_NoSpace ==
  [][last'.op = "AllocatePage" =>
       /\ (last'.err # "") <=> (dmMaxFileCount <= 0)
       /\ last'.err \in {"", "no space"}
       /\ last'.err = "" =>
            last'.out[1].FileIdx >= 0 /\ last'.out[1].FileIdx < dmMaxFileCount
       /\ last'.err # "" => bitmaps' = bitmaps /\ files' = files]_vars

\* an AllocatePage that failed for want of space
C18_Witness == last.op = "AllocatePage" /\ last.err = "no space"

\* C19: ReadPage(p) returns what the last successful WritePage(p, data) left
\* in the page, data followed by zero bytes, and a page never written reads
\* as zero bytes, whatever was allocated, freed or written elsewhere since
C19_ReadLastWrite ==
  (last.op = "ReadPage" /\ last.err = "") =>
    last.out[1] = IF last.pre \in DOMAIN written THEN written[last.pre] ELSE ZeroPage

\* a read of a page that was written with 8 bytes only and freed afterwards
C19_Witness ==
  /\ last.op = "ReadPage" /\ last.err = ""
  /\ last.pre \in DOMAIN written
  /\ last.out[1].b0 = PID(1, 0)
  /\ bitmaps[0][last.pre.PageIdx + 1] = 0

\* ---------------------------------------- concurrent callers of the disk
ConcRest == UNCHANGED <<frames, repl, lookup, policy, RecordSize, tables, hdrFiles, saveFile,
                        running, live, acq, owned, dmMaxFileCount, used, evicted, written,
                        catRun>>

\* a goroutine calls AllocatePage and reaches m.mu.Lock()
ConcCallAllocate(c) ==
  /\ Up
  /\ pc[c].at = "idle"
  /\ Len(bitmaps[0]) < MaxDiskPages \/ \E i \in 1..Len(bitmaps[0]) : bitmaps[0][i] = 0
  /\ pc' = [pc EXCEPT ![c] = [idle EXCEPT !.at = "waiting", !.op = "AllocatePage"]]
  /\ Count
  /\ UNCHANGED <<files, bitmaps, last, mu, alloc>>
  /\ ConcRest

\* a goroutine calls FreePage(pid) and reaches m.mu.Lock()
ConcCallFree(c, pid) ==
  /\ Up
  /\ pc[c].at = "idle"
  /\ pc' = [pc EXCEPT ![c] = [idle EXCEPT !.at = "waiting", !.op = "FreePage", !.pid = pid]]
  /\ Count
  /\ UNCHANGED <<files, bitmaps, last, mu, alloc>>
  /\ ConcRest

\* m.mu.Lock() returns in a waiting goroutine
ConcLock(c) ==
  /\ pc[c].at = "waiting"
  /\ TryLock(mu)
  /\ mu' = c
  /\ pc' = [pc EXCEPT ![c].at = "locked"]
  /\ UNCHANGED <<files, bitmaps, last, left, alloc>>
  /\ ConcRest

\* AllocatePage: the range loop over the bitmap of segment 0
ConcScan(c) ==
  /\ pc[c].at = "locked" /\ pc[c].op = "AllocatePage"
  /\ pc' = [pc EXCEPT ![c].at = "scanned",
                      ![c].i = IF 0 < dmMaxFileCount THEN FirstFree(bitmaps[0]) ELSE -1]
  /\ UNCHANGED <<files, bitmaps, last, left, mu, alloc>>
  /\ ConcRest

\* AllocatePage marks or appends the page, returns it and unlocks (deferred)
ConcAllocateReturn(c) ==
  /\ pc[c].at = "scanned"
  /\ \E r \in {AllocateScanned(Mach, pc[c].i)} :
       /\ files' = r.files /\ bitmaps' = r.bitmaps
       /\ alloc' = IF Ok(r) THEN alloc (+) SetToBag({r.ret}) ELSE alloc
       /\ last' = [op |-> "AllocatePage", err |-> r.err, t |-> "",
                   out |-> IF Ok(r) THEN <<r.ret>> ELSE <<>>, pre |-> <<>>]
  /\ mu' = 0
  /\ pc' = [pc EXCEPT ![c] = idle]
  /\ UNCHANGED left
  /\ ConcRest

\* FreePage(pid) checks pid, clears its byte, returns and unlocks (deferred)
ConcFreeReturn(c) ==
  /\ pc[c].at = "locked" /\ pc[c].op = "FreePage"
  /\ \E r \in {DiskFreePage(Mach, pc[c].pid)} :
       /\ files' = r.files /\ bitmaps' = r.bitmaps
       /\ alloc' = IF Ok(r) THEN [p \in DOMAIN alloc \ {pc[c].pid} |-> alloc[p]] ELSE alloc
       /\ last' = [op |-> "FreePage", err |-> r.err, t |-> "", out |-> <<>>, pre |-> pc[c].pid]
  /\ mu' = 0
  /\ pc' = [pc EXCEPT ![c] = idle]
  /\ UNCHANGED left
  /\ ConcRest

NextConc ==
  \/ \E c \in Callers : ConcCallAllocate(c)
  \/ \E c \in Callers, pid \in DiskPids : ConcCallFree(c, pid)
  \/ \E c \in Callers : ConcLock(c)
  \/ \E c \in Callers : ConcScan(c)
  \/ \E c \in Callers : ConcAllocateReturn(c)
  \/ \E c \in Callers : ConcFreeReturn(c)

\* NCallers goroutines share a DiskManager on an empty directory
InitConc == InitOf(MaxConcOps, {DMMaxFileCount})

SpecConc == InitConc /\ [][NextConc]_vars

\* C20: whatever the interleaving of the callers, no page is handed out
\* twice without a FreePage of it in between, and the bitmaps mark exactly
\* the pages handed out and not freed since
C20_NoDoubleAllocation ==
  /\ \A p \in BagToSet(alloc) : CopiesIn(p, alloc) = 1
  /\ \A f \in DOMAIN bitmaps : \A j \in 1..Len(bitmaps[f]) :
       (bitmaps[f][j] = 1) <=> BagIn(PID(f, j - 1), alloc)

\* an AllocatePage returned a second page while the other goroutine, in
\* AllocatePage too, waits for the mutex
C20_Witness ==
  /\ last.op = "AllocatePage" /\ last.err = ""
  /\ BagCardinality(alloc) >= 2
  /\ \E c \in Callers : pc[c].at = "waiting" /\ pc[c].op = "AllocatePage"

\* ------------------------------------------------------ command layer
\* the RecordIds a WHERE col1 = v clause selects from what a scan delivered
RECURSIVE Matching(_, _, _)
Matching(out, v, i) ==
  IF i > Len(out) THEN <<>>
  ELSE (IF out[i].rec[1] = v THEN <<out[i].rid>> ELSE <<>>) \o Matching(out, v, i + 1)

\* DeleteWhere's second loop
RECURSIVE DeleteAll(_, _, _)
DeleteAll(m, rids, i) ==
  IF i > Len(rids) THEN m
  ELSE Then(DeleteRecord(m, rids[i]), LAMBDA d : DeleteAll(d, rids, i + 1))

DeleteWhere(m, v) ==
  Then(ScanRecords(m), LAMBDA sc : DeleteAll(sc, Matching(sc.out, v, 1), 1))

\* UpdateWhere's second loop: delete the old record, insert the new one
RECURSIVE UpdateAll(_, _, _, _)
UpdateAll(m, rids, rec, i) ==
  IF i > Len(rids) THEN m
  ELSE Then(DeleteRecord(m, rids[i]), LAMBDA d :
         Then(InsertRecord(d, rec), LAMBDA n : UpdateAll(n, rids, rec, i + 1)))

\* UpdateWhere with the match "col1 = v" and an updater that returns rec
UpdateWhereTo(m, v, rec) ==
  Then(ScanRecords(m), LAMBDA sc : UpdateAll(sc, Matching(sc.out, v, 1), rec, 1))

\* UPDATE t a SET every column = w WHERE col1 = v
UpdateWhere(m, v, w) == UpdateWhereTo(m, v, Rec(w))

\* SaveState writing no column list into its entries
SaveEntryNoCols(name) ==
  [Name |-> name, Cols |-> <<>>, Header |-> tables[name].HeaderPageId]

\* SaveState: one entry per table; a header equal to PageId{} is left out
SaveEntry(name) ==
  [Name |-> name,
   Cols |-> tables[name].Columns,
   Header |-> IF tables[name].HeaderPageId # zeroPageId
                THEN tables[name].HeaderPageId ELSE zeroPageId]

\* the orders in which a Go map of the given keys can be ranged over
Orders(K) == {q \in [1..Cardinality(K) -> K] : \A i, j \in 1..Cardinality(K) : q[i] = q[j] => i = j}

\* the <name>.hdr files SaveState writes next to database.save
SavedHdrs ==
  [n \in DOMAIN hdrFiles \cup {x \in DOMAIN tables : tables[x].HeaderPageId # zeroPageId} |->
     IF n \in DOMAIN tables /\ tables[n].HeaderPageId # zeroPageId
       THEN StoredPid(tables[n].HeaderPageId) ELSE hdrFiles[n]]

\* LoadState, one entry: st = [m machine, cat catalog, hdrs .hdr files]
LoadEntryIn(st, e, hdrs) ==
  IF e.Name \in DOMAIN st.cat THEN [st EXCEPT !.m = Fail(@, "table exists"), !.hdrs = hdrs]
  ELSE [m |-> EnsureHeader(NewRelationManagerIn(st.m, e.Name, hdrs)),
        cat |-> st.cat, hdrs |-> hdrs]

Adopt(st, e) ==
  IF st.m.err # "" THEN st
  ELSE [st EXCEPT !.cat = Put(@, e.Name, [HeaderPageId |-> st.m.HeaderPageId,
                                          SlotsPerPage |-> st.m.SlotsPerPage,
                                          Columns |-> NewRelation(e.Name, e.Cols).Columns]),
                  !.hdrs = IF st.m.hdrFile # invalidPage THEN Put(@, e.Name, st.m.hdrFile) ELSE @,
                  !.m = [st.m EXCEPT !.hdrFile = invalidPage]]

LoadEntry(st, e) ==
  Adopt(LoadEntryIn(st, e, IF e.Header.FileIdx # 0 \/ e.Header.PageIdx # 0
                             THEN Put(st.hdrs, e.Name, StoredPid(e.Header)) ELSE st.hdrs),
        e)

RECURSIVE LoadFrom(_, _, _)
LoadFrom(st, entries, i) ==
  IF i > Len(entries) \/ st.m.err # "" THEN st
  ELSE LoadFrom(LoadEntry(st, entries[i]), entries, i + 1)

\* NewSGBD: a new buffer pool over the files on disk, then LoadState
FreshMach == [Mach EXCEPT !.frames = [i \in 1..BMBufferCount |-> emptyFrame],
                          !.repl = <<>>, !.lookup = <<>>]

LoadState ==
  IF ~saveFile.exists THEN [m |-> FreshMach, cat |-> <<>>, hdrs |-> hdrFiles]
  ELSE LoadFrom([m |-> FreshMach, cat |-> <<>>, hdrs |-> hdrFiles], saveFile.entries, 1)

\* the rows the specification still expects after a DELETE/UPDATE ... WHERE col1 = v
Unmatched(b, v) == [e \in {x \in DOMAIN b : x[2][1] # v} |-> b[e]]

CmdRest == UNCHANGED <<RecordSize, saveFile, running, acq, outside>>

\* CREATE TABLE name (...)
CmdCreate(name) ==
  /\ Up
  /\ \E r \in {AddTable(Mach, name)} :
       /\ r.err # "cap"
       /\ Engine(r)
       /\ IF Ok(r)
            THEN RelAfter(r, name) /\ live' = Put(live, name, EmptyBag)
            ELSE UNCHANGED <<tables, hdrFiles, owned, live>>
       /\ Note("Create", name, r)
  /\ Count
  /\ CmdRest

\* INSERT INTO t VALUES (v,...): InsertRecord, then FlushBuffers
CmdInsert(t, v) ==
  /\ Up
  /\ t \in DOMAIN tables
  /\ \E r \in {InsertRecord(OnRel(Mach, t), Rec(v))} :
       /\ r.err # "cap"
       /\ \E f \in {Then(r, LAMBDA x : FlushBuffers(x))} :
            /\ Engine(f)
            /\ RelAfter(f, t)
            /\ live' = IF Ok(f) THEN Put(live, t, live[t] (+) SetToBag({<<r.rid, Rec(v)>>}))
                       ELSE live
            /\ Note("Insert", t, [f EXCEPT !.out = <<>>])
  /\ Count
  /\ CmdRest

\* DELETE t a WHERE a.col1 = v: DeleteWhere, then FlushBuffers
CmdDelete(t, v) ==
  /\ Up
  /\ t \in DOMAIN tables
  /\ \E f \in {Then(DeleteWhere(OnRel(Mach, t), v), LAMBDA x : FlushBuffers(x))} :
       /\ Engine(f)
       /\ RelAfter(f, t)
       /\ live' = Put(live, t, Unmatched(live[t], v))
       /\ Note("Delete", t, [f EXCEPT !.out = <<>>])
  /\ Count
  /\ CmdRest

\* UPDATE t a SET a.col = w,... WHERE a.col1 = v: UpdateWhere, then FlushBuffers
CmdUpdate(t, v, w) ==
  /\ Up
  /\ t \in DOMAIN tables
  /\ v # w
  /\ \E f \in {Then(UpdateWhere(OnRel(Mach, t), v, w), LAMBDA x : FlushBuffers(x))} :
       /\ f.err # "cap"
       /\ Engine(f)
       /\ RelAfter(f, t)
       /\ live' = Put(live, t, Unmatched(live[t], v))
       /\ Note("Update", t, [f EXCEPT !.out = <<>>])
  /\ Count
  /\ CmdRest

\* SELECT * FROM t a: FlushBuffers, then the scan
CmdSelect(t) ==
  /\ Up
  /\ t \in DOMAIN tables
  /\ \E f \in {Then(FlushBuffers(Mach), LAMBDA x : ScanRecords(OnRel(x, t)))} :
       /\ Engine(f)
       /\ Note("Select", t, f)
  /\ Count
  /\ UNCHANGED <<tables, hdrFiles, live, owned>>
  /\ CmdRest

\* EXIT: SaveState, FlushBuffers, Finish, every error dropped.  The history
\* keeps the catalog and, when the command just before was a successful
\* SELECT, its table and rows.
CmdExit ==
  /\ Up
  /\ \E q \in Orders(DOMAIN tables) :
       saveFile' = [exists |-> TRUE,
                    entries |-> [i \in 1..Len(q) |-> SaveEntry(q[i])]]
  /\ hdrFiles' = SavedHdrs
  /\ Engine(FlushBuffers(Mach))
  /\ running' = FALSE
  /\ last' = [op |-> "Exit", err |-> "",
              t |-> IF last.op = "Select" /\ last.err = "" THEN last.t ELSE "",
              out |-> IF last.op = "Select" /\ last.err = "" THEN last.out ELSE <<>>,
              pre |-> DOMAIN tables]
  /\ Count
  /\ UNCHANGED <<RecordSize, tables, live, acq, outside, owned>>

\* the engine is started again on the same data directory
CmdRestart ==
  /\ ~running /\ last.op = "Exit"
  /\ \E st \in {LoadState} :
       /\ st.m.err # "cap"
       /\ Engine(st.m)
       /\ tables' = st.cat
       /\ hdrFiles' = st.hdrs
       /\ running' = Ok(st.m)
       /\ last' = [last EXCEPT !.op = "Restart", !.err = st.m.err]
  /\ UNCHANGED <<RecordSize, saveFile, live, acq, outside, owned, left>>

NextCmd ==
  \/ CmdCreate("T1")
  \/ \E v \in RecVals : CmdInsert("T1", v)
  \/ \E v \in RecVals : CmdDelete("T1", v)
  \/ \E v, w \in RecVals : CmdUpdate("T1", v, w)
  \/ CmdSelect("T1")
  \/ CmdExit
  \/ CmdRestart

InitCmd == InitWith(MaxCmdOps)

SpecCmd == InitCmd /\ [][NextCmd]_vars

\* how often a row occurs among the rows the history expects, and in a result
Expected(t, rec) == BagCardinality([e \in {x \in DOMAIN live[t] : x[2] = rec} |-> live[t][e]])
Returned(out, rec) == Cardinality({i \in 1..Len(out) : out[i].rec = rec})

\* C2: a SELECT * that succeeds returns every row written by an earlier
\* successful INSERT and not matched by an earlier DELETE or UPDATE
C2_SelectSeesWrites ==
  (last.op = "Select" /\ last.err = "") =>
    \A v \in RecVals : Expected(last.t, Rec(v)) <= Returned(last.out, Rec(v))

\* C3: after EXIT and a restart on the same data directory the catalog holds
\* the same tables, and scanning the table of the SELECT that came just
\* before EXIT yields the rows that SELECT returned
C3_RestartKeepsData ==
  (last.op = "Restart" /\ last.t # "") =>
    /\ last.err = ""
    /\ DOMAIN tables = last.pre
    /\ \E sc \in {ScanRecords(OnRel(Mach, last.t))} :
         /\ sc.err = ""
         /\ SeqToBag(sc.out) = SeqToBag(last.out)

\* a restart after SELECT (returning rows), EXIT has happened
C3_Witness ==
  /\ last.op = "Restart" /\ last.err = "" /\ last.t # "" /\ Len(last.out) > 0
  /\ DOMAIN tables = {"T1"}

\* ------------------------------------------- several relations at once
\* DBManager.RemoveTable: the data pages are freed, <name>.hdr is removed
DoRemoveTable(name) ==
  /\ Up
  /\ name \in DOMAIN tables
  /\ \E r \in {RemoveTable(Mach, name)} :
       /\ Engine(r)
       /\ IF Ok(r)
            THEN /\ tables' = Drop(tables, name)
                 /\ hdrFiles' = Drop(hdrFiles, name)
                 /\ live' = Drop(live, name)
                 /\ owned' = Drop(owned, name)
            ELSE UNCHANGED <<tables, hdrFiles, live, owned>>
       /\ Note("RemoveTable", name, [r EXCEPT !.out = <<>>])
  /\ Count
  /\ UNCHANGED <<RecordSize, saveFile, running, acq, outside>>

\* BufferManager.FlushBuffers between two catalog operations
DoFlushBuffers ==
  /\ Up
  /\ \E r \in {FlushBuffers(Mach)} : Engine(r) /\ Note("FlushBuffers", "", r)
  /\ Count
  /\ UNCHANGED <<RecordSize, tables, hdrFiles, saveFile, running, live, acq, outside, owned>>

NextCat ==
  \/ \E t \in TableNames : DoAddTable(t)
  \/ \E t \in TableNames : DoInsertRecord(t, 1)
  \/ \E t \in TableNames : \E e \in LiveSet(t) : DoDeleteRecord(t, e)
  \/ \E t \in TableNames : DoRemoveTable(t)
  \/ DoFlushBuffers

InitCat == InitWith(MaxCatOps)

SpecCat == InitCat /\ [][NextCat]_vars

ListPages(t) == FreeList(t) \cup FullList(t)

\* C8: no page is on the lists of two different relations of the catalog, and
\* no relation's list reaches the header page of another relation
C8_ListsDisjoint ==
  \A t1, t2 \in DOMAIN tables :
    (t1 # t2 /\ ~Hung) =>
      /\ ListPages(t1) \cap ListPages(t2) = {}
      /\ tables[t2].HeaderPageId \notin ListPages(t1)

\* C21: a RemoveTable that succeeds leaves every page the disk manager had
\* allocated for the relation, its header page and its data pages, marked
\* free in the bitmap
C21_RemoveFreesAll ==
  [][(last'.op = "RemoveTable" /\ last'.err = ""
        /\ last'.t \in DOMAIN tables /\ last'.t \notin DOMAIN tables') =>
       \A p \in DataPages(last'.t) \cup {tables[last'.t].HeaderPageId} :
         bitmaps'[p.FileIdx][p.PageIdx + 1] = 0]_vars

\* ------------------------------------------------ the catalog's own API
\* sort.Strings over the table names
SortedNames == <<"T1", "T2">>

DbRest == UNCHANGED <<RecordSize, running, acq, used, evicted, diskRun, arg>>

\* DBManager.AddTable(NewRelation(name, Columns)), whether name exists or not
DbAddTable(name) ==
  /\ Up
  /\ \E r \in {AddTable(Mach, name)} :
       /\ r.err # "cap"
       /\ Engine(r)
       /\ IF Ok(r)
            THEN RelAfter(r, name) /\ live' = Put(live, name, EmptyBag)
            ELSE UNCHANGED <<tables, hdrFiles, owned, live>>
       /\ names' = IF Ok(r) THEN names \cup {name} ELSE names
       /\ Note("AddTable", name, r)
  /\ Count
  /\ UNCHANGED <<saveFile, saved>>
  /\ DbRest

\* DBManager.RemoveTable(name), whether name exists or not
DbRemoveTable(name) ==
  /\ Up
  /\ \E r \in {RemoveTable(Mach, name)} :
       /\ Engine(r)
       /\ IF Ok(r)
            THEN /\ tables' = Drop(tables, name)
                 /\ hdrFiles' = Drop(hdrFiles, name)
                 /\ live' = Drop(live, name)
                 /\ owned' = Drop(owned, name)
            ELSE UNCHANGED <<tables, hdrFiles, live, owned>>
       /\ names' = IF Ok(r) THEN names \ {name} ELSE names
       /\ Note("RemoveTable", name, [r EXCEPT !.out = <<>>])
  /\ Count
  /\ UNCHANGED <<saveFile, saved>>
  /\ DbRest

\* the function f without the keys in K
DropAll(f, K) == [x \in DOMAIN f \ K |-> f[x]]

\* DBManager.RemoveAllTables
DbRemoveAllTables ==
  /\ Up
  /\ \E q \in Orders(DOMAIN tables) :
       \E r \in {RemoveAllTables(Mach, q)} :
         /\ Engine(r)
         /\ tables' = DropAll(tables, {q[i] : i \in 1..r.n})
         /\ hdrFiles' = DropAll(hdrFiles, {q[i] : i \in 1..r.n})
         /\ live' = DropAll(live, {q[i] : i \in 1..r.n})
         /\ owned' = DropAll(owned, {q[i] : i \in 1..r.n})
         /\ names' = names \ {q[i] : i \in 1..r.n}
         /\ Note("RemoveAllTables", "", [r EXCEPT !.out = <<>>])
  /\ Count
  /\ UNCHANGED <<saveFile, saved>>
  /\ DbRest

\* DBManager.GetTable(name): out tells whether a relation came back
DbGetTable(name) ==
  /\ Up
  /\ last' = [op |-> "GetTable", err |-> IF name \in DOMAIN tables THEN "" ELSE "table not found",
              t |-> name, out |-> <<name \in DOMAIN tables>>, pre |-> <<>>]
  /\ Count
  /\ UNCHANGED <<files, bitmaps, frames, repl, lookup, policy, tables, hdrFiles, live, owned,
                 saveFile, saved, names>>
  /\ DbRest

\* DBManager.DescribeAllTables: one description per table, sorted by name
DbDescribeAllTables ==
  /\ Up
  /\ last' = [op |-> "DescribeAllTables", err |-> "", t |-> "",
              out |-> SelectSeq(SortedNames, LAMBDA n : n \in DOMAIN tables), pre |-> <<>>]
  /\ Count
  /\ UNCHANGED <<files, bitmaps, frames, repl, lookup, policy, tables, hdrFiles, live, owned,
                 saveFile, saved, names>>
  /\ DbRest

\* DBManager.SaveState: database.save and the .hdr files; the history keeps
\* the column list and the header PageId of every table of the catalog
DbSaveState ==
  /\ Up
  /\ \E q \in Orders(DOMAIN tables) :
       saveFile' = [exists |-> TRUE, entries |-> [i \in 1..Len(q) |-> SaveEntry(q[i])]]
  /\ hdrFiles' = SavedHdrs
  /\ saved' = [n \in DOMAIN tables |-> [Columns |-> tables[n].Columns,
                                         Header |-> tables[n].HeaderPageId]]
  /\ last' = [op |-> "SaveState", err |-> "", t |-> "", out |-> <<>>, pre |-> <<>>]
  /\ Count
  /\ UNCHANGED <<files, bitmaps, frames, repl, lookup, policy, tables, live, owned, names>>
  /\ DbRest

\* LoadState in a new DBManager over a new disk manager and a new pool on
\* the same directory (NewSGBD; TestDBManagerSaveLoad)
DbLoadState ==
  /\ Up
  /\ \E st \in {LoadState} :
       /\ st.m.err # "cap"
       /\ Engine(st.m)
       /\ tables' = st.cat
       /\ hdrFiles' = st.hdrs
       /\ names' = DOMAIN st.cat
       /\ live' = [n \in DOMAIN st.cat |-> IF n \in DOMAIN live THEN live[n] ELSE EmptyBag]
       /\ owned' = [n \in DOMAIN st.cat \cap DOMAIN owned |-> owned[n]]
       /\ last' = [op |-> "LoadState",
                   err |-> IF saveFile.exists THEN st.m.err ELSE "no such file",
                   t |-> "", out |-> <<>>, pre |-> <<>>]
  /\ Count
  /\ UNCHANGED <<saveFile, saved>>
  /\ DbRest

NextDb ==
  \/ \E t \in TableNames : DbAddTable(t)
  \/ DbSaveState
  \/ DbLoadState
  \/ \E t \in TableNames : DbRemoveTable(t)
  \/ DbRemoveAllTables
  \/ \E t \in TableNames : DbGetTable(t)
  \/ DbDescribeAllTables
  \/ \E t \in TableNames : DoInsertRecord(t, 1)

InitDb == InitWith(MaxDbOps)

SpecDb == InitDb /\ [][NextDb]_vars

\* what the engine and the catalog hold
Held == <<files, bitmaps, frames, repl, lookup, policy, tables, hdrFiles>>

\* C22: GetTable and DescribeAllTables expose exactly the names added and not
\* removed since; AddTable of a name that exists fails and changes nothing;
\* RemoveTable leaves the other tables as they were; a RemoveAllTables that
\* succeeds leaves no table
C22_CatalogNames ==
  [][left' # left =>
       /\ DOMAIN tables' = names'
       /\ last'.op = "GetTable" => (last'.out[1] <=> last'.t \in names)
       /\ last'.op = "DescribeAllTables" =>
            {last'.out[i] : i \in 1..Len(last'.out)} = names
       /\ (last'.op = "AddTable" /\ last'.t \in names) => last'.err # "" /\ Held' = Held
       /\ (last'.op = "RemoveTable" /\ last'.err = "") =>
            /\ last'.t \in names
            /\ tables' = Drop(tables, last'.t)
       /\ (last'.op = "RemoveTable" /\ last'.err # "") => tables' = tables
       /\ (last'.op = "RemoveAllTables" /\ last'.err = "") => DOMAIN tables' = {}]_vars

\* two tables were added (four pages), one was removed (a page is free), and
\* another AddTable of the one that is left has failed
C22_Witness ==
  /\ last.op = "AddTable" /\ last.err = "table exists"
  /\ names = {last.t}
  /\ Len(bitmaps[0]) >= 4
  /\ \E i \in 1..Len(bitmaps[0]) : bitmaps[0][i] = 0

\* C23: LoadState in a new DBManager restores the tables of the catalog that
\* SaveState wrote, each with the column list and the header PageId it had
\* then; an empty catalog comes back empty
C23_LoadRestoresSaved ==
  [][(left' # left /\ last'.op = "LoadState" /\ saveFile.exists) =>
       /\ last'.err = ""
       /\ DOMAIN tables' = DOMAIN saved
       /\ \A n \in DOMAIN saved :
            /\ tables'[n].Columns = saved[n].Columns
            /\ tables'[n].HeaderPageId = saved[n].Header]_vars

\* two tables were saved, one was removed afterwards, and LoadState has
\* brought both back
C23_Witness ==
  /\ last.op = "LoadState" /\ last.err = ""
  /\ DOMAIN saved = TableNames /\ DOMAIN tables = TableNames
  /\ \E i \in 1..Len(bitmaps[0]) : bitmaps[0][i] = 0

\* ------------------------------------------------ the record codec, in bytes
\* A string is the sequence of its bytes; a []byte is a sequence of 0..255.
\* strconv.Atoi: an optional sign, then decimal digits only, and the value
\* must fit the int of the build, which has bits = 32 or 64 bits.  The
\* magnitude is kept in five 16-bit limbs, lowest first.
RECURSIVE MulAdd10(_, _, _)
MulAdd10(l, i, carry) ==
  IF i > Len(l) THEN <<>>
  ELSE <<(l[i] * 10 + carry) % 65536>> \o MulAdd10(l, i + 1, (l[i] * 10 + carry) \div 65536)

RECURSIVE Magnitude(_, _, _)
Magnitude(s, i, acc) ==
  IF i > Len(s) THEN acc ELSE Magnitude(s, i + 1, MulAdd10(acc, 1, s[i] - 48))

\* where the digits of s begin
DigitsFrom(s) == IF Len(s) > 0 /\ s[1] \in {43, 45} THEN 2 ELSE 1

IsDecimal(s) ==
  /\ DigitsFrom(s) <= Len(s)
  /\ \A i \in DigitsFrom(s)..Len(s) : s[i] >= 48 /\ s[i] <= 57

\* the magnitude fits a signed int of the given width
FitsInt(neg, mag, bits) ==
  IF bits = 64
    THEN /\ mag[5] = 0
         /\ \/ mag[4] < 32768
            \/ neg /\ mag[4] = 32768 /\ mag[3] = 0 /\ mag[2] = 0 /\ mag[1] = 0
    ELSE /\ mag[5] = 0 /\ mag[4] = 0 /\ mag[3] = 0
         /\ \/ mag[2] < 32768
            \/ neg /\ mag[2] = 32768 /\ mag[1] = 0

Atoi(s, bits) ==
  IF ~IsDecimal(s) THEN [err |-> "invalid syntax", neg |-> FALSE, mag |-> <<0, 0, 0, 0, 0>>]
  ELSE [err |-> IF FitsInt(s[1] = 45, Magnitude(s, DigitsFrom(s), <<0, 0, 0, 0, 0>>), bits)
                  THEN "" ELSE "value out of range",
        neg |-> s[1] = 45,
        mag |-> Magnitude(s, DigitsFrom(s), <<0, 0, 0, 0, 0>>)]

\* uint32(int32(v)): the low 32 bits of v in two's complement, as two halves
Low32(neg, mag) ==
  IF ~neg \/ (mag[1] = 0 /\ mag[2] = 0) THEN <<mag[1], mag[2]>>
  ELSE IF mag[1] = 0 THEN <<0, 65536 - mag[2]>>
  ELSE <<65536 - mag[1], 65535 - mag[2]>>

\* binary.LittleEndian.PutUint32 / Uint32 on four bytes
PutBytes(h) == <<h[1] % 256, h[1] \div 256, h[2] % 256, h[2] \div 256>>
GetBytes(b) == <<b[1] + 256 * b[2], b[3] + 256 * b[4]>>

\* strconv.FormatInt(int64(int32(u)), 10) for the uint32 of the halves h
Div10(h) ==
  [q |-> <<((h[2] % 10) * 65536 + h[1]) \div 10, h[2] \div 10>>,
   r |-> ((h[2] % 10) * 65536 + h[1]) % 10]

RECURSIVE DecimalDigits(_)
DecimalDigits(h) ==
  IF h = <<0, 0>> THEN <<>> ELSE DecimalDigits(Div10(h).q) \o <<48 + Div10(h).r>>

FormatInt(h) ==
  IF h = <<0, 0>> THEN <<48>>
  ELSE IF h[2] >= 32768 THEN <<45>> \o DecimalDigits(Low32(TRUE, h))
  ELSE DecimalDigits(h)

\* the strings given to FLOAT columns, with the float32 nearest to each:
\* "12.5" = 0x41480000, "0.100000001" -> 0x3DCCCCCD (the float32 of 0.1)
f12x5 == <<49, 50, 46, 53>>
f0x100000001 == <<48, 46, 49, 48, 48, 48, 48, 48, 48, 48, 49>>
f0x1 == <<48, 46, 49>>
f1e39 == <<49, 101, 51, 57>>
sNaN == <<78, 97, 78>>

\* strconv.ParseFloat(val, 32), then math.Float32bits: "1e39" is out of the
\* range of float32, any other string is no number
ParseFloat32(s) ==
  IF s = f12x5 THEN [err |-> "", bits |-> <<0, 0, 72, 65>>]
  ELSE IF s \in {f0x1, f0x100000001} THEN [err |-> "", bits |-> <<205, 204, 204, 61>>]
  ELSE IF s = f1e39 THEN [err |-> "value out of range", bits |-> <<0, 0, 128, 127>>]
  ELSE [err |-> "invalid syntax", bits |-> <<0, 0, 0, 0>>]

\* fmt.Sprintf("%g", math.Float32frombits(bits)): the shortest decimal that
\* gives the float32 back
FormatG(b) ==
  IF b = <<0, 0, 72, 65>> THEN f12x5
  ELSE IF b = <<205, 204, 204, 61>> THEN f0x1
  ELSE IF b = <<0, 0, 0, 0>> THEN <<48>>
  ELSE sNaN

\* copy(buff[off:off+n], b) after truncation, then the zero padding
Padded2(b, n) == [j \in 1..n |-> IF j <= Len(b) THEN b[j] ELSE 0]

\* buff with the bytes w written at offset off (from 0)
Patch(buff, off, w) ==
  [j \in 1..Len(buff) |-> IF j > off /\ j <= off + Len(w) THEN w[j - off] ELSE buff[j]]

\* the loop of WriteRecordToBuffer from column i on; the fields before a
\* field that fails have been written
RECURSIVE WriteFields(_, _, _, _, _, _)
WriteFields(cols, vals, buff, off, i, bits) ==
  IF i > Len(cols) THEN [err |-> "", buff |-> buff]
  ELSE IF cols[i].Kind = "INT"
    THEN IF Atoi(vals[i], bits).err # ""
           THEN [err |-> "invalid int", buff |-> buff]
           ELSE WriteFields(cols, vals,
                            Patch(buff, off, PutBytes(Low32(Atoi(vals[i], bits).neg,
                                                            Atoi(vals[i], bits).mag))),
                            off + 4, i + 1, bits)
  ELSE IF cols[i].Kind = "FLOAT"
    THEN IF ParseFloat32(vals[i]).err # ""
           THEN [err |-> "invalid float", buff |-> buff]
           ELSE WriteFields(cols, vals, Patch(buff, off, ParseFloat32(vals[i]).bits),
                            off + 4, i + 1, bits)
  ELSE WriteFields(cols, vals, Patch(buff, off, Padded2(vals[i], cols[i].Size)),
                   off + cols[i].Size, i + 1, bits)

\* Relation.WriteRecordToBuffer(rec, buff, pos) for the relation of columns cols
WriteRecordBytes(cols, vals, buff, pos, bits) ==
  IF Len(vals) # Len(cols) THEN [err |-> "record arity mismatch", buff |-> buff]
  ELSE IF pos < 0 \/ pos + NewRelation("", cols).RecordSize > Len(buff)
    THEN [err |-> "buffer too small or pos out of range", buff |-> buff]
  ELSE WriteFields(cols, vals, buff, pos, 1, bits)

\* the bytes b up to the first zero byte
RECURSIVE TrimAtZero(_, _)
TrimAtZero(b, k) ==
  IF k > Len(b) \/ b[k] = 0 THEN <<>> ELSE <<b[k]>> \o TrimAtZero(b, k + 1)

RECURSIVE ReadFields(_, _, _, _)
ReadFields(cols, buff, off, i) ==
  IF i > Len(cols) THEN <<>>
  ELSE IF cols[i].Kind = "INT"
    THEN <<FormatInt(GetBytes(SubSeq(buff, off + 1, off + 4)))>>
           \o ReadFields(cols, buff, off + 4, i + 1)
  ELSE IF cols[i].Kind = "FLOAT"
    THEN <<FormatG(SubSeq(buff, off + 1, off + 4))>> \o ReadFields(cols, buff, off + 4, i + 1)
  ELSE <<TrimAtZero(SubSeq(buff, off + 1, off + cols[i].Size), 1)>>
         \o ReadFields(cols, buff, off + cols[i].Size, i + 1)

\* Relation.ReadFromBuffer(rec, buff, pos)
ReadRecordBytes(cols, buff, pos) ==
  IF pos < 0 \/ pos + NewRelation("", cols).RecordSize > Len(buff)
    THEN [err |-> "buffer too small or pos out of range", vals |-> <<>>]
  ELSE [err |-> "", vals |-> ReadFields(cols, buff, pos, 1)]

\* the decimal string of the digits ds
Dec(ds) == [i \in 1..Len(ds) |-> 48 + ds[i]]

\* strings given to INT columns: "12", "-1", "+007", "2147483647",
\* "-2147483648", "2147483648", "-2147483649", "4294967308",
\* "9223372036854775808", "1x", ""
IntInputs ==
  {Dec(<<1, 2>>), <<45>> \o Dec(<<1>>), <<43>> \o Dec(<<0, 0, 7>>),
   Dec(<<2, 1, 4, 7, 4, 8, 3, 6, 4, 7>>), <<45>> \o Dec(<<2, 1, 4, 7, 4, 8, 3, 6, 4, 8>>),
   Dec(<<2, 1, 4, 7, 4, 8, 3, 6, 4, 8>>), <<45>> \o Dec(<<2, 1, 4, 7, 4, 8, 3, 6, 4, 9>>),
   Dec(<<4, 2, 9, 4, 9, 6, 7, 3, 0, 8>>),
   Dec(<<9, 2, 2, 3, 3, 7, 2, 0, 3, 6, 8, 5, 4, 7, 7, 5, 8, 0, 8>>),
   <<49, 120>>, <<>>}

FloatInputs == {f12x5, f0x100000001, f1e39, <<49, 120>>}

\* "", "A", "AB", "ABC"
TextInputs == {<<>>, <<65>>, <<65, 66>>, <<65, 66, 67>>}

ColumnTypes ==
  {[Name |-> 1, Kind |-> "INT", Size |-> 0], [Name |-> 1, Kind |-> "FLOAT", Size |-> 0],
   [Name |-> 1, Kind |-> "CHAR", Size |-> 2], [Name |-> 1, Kind |-> "VARCHAR", Size |-> 1]}

Schemas == UNION {[1..n -> ColumnTypes] : n \in 1..2}

InputsFor(col) ==
  IF col.Kind = "INT" THEN IntInputs
  ELSE IF col.Kind = "FLOAT" THEN FloatInputs ELSE TextInputs

\* the records of the arity of cols, and one that is a value short
RecordsFor(cols) ==
  {v \in [1..Len(cols) -> IntInputs \cup FloatInputs \cup TextInputs] :
     \A i \in 1..Len(cols) : v[i] \in InputsFor(cols[i])} \cup {<<>>}

\* a call of WriteRecordToBuffer: the relation, the record, the buffer (every
\* byte fill), the offset, and the width of int in the build
CodecArgs ==
  UNION {{[cols |-> c, vals |-> v, buff |-> [j \in 1..BufBytes |-> f], pos |-> p, bits |-> b] :
            v \in RecordsFor(c), f \in {0, 255}, p \in 0..MaxPos, b \in {32, 64}} :
         c \in Schemas}

CodecRest == UNCHANGED <<files, bitmaps, frames, repl, lookup, policy, RecordSize, tables,
                         hdrFiles, saveFile, running, live, acq, owned, used, evicted,
                         diskRun, names, saved>>

\* Relation.WriteRecordToBuffer on the arguments of the run
CodecWrite ==
  /\ Up
  /\ last.op = "Init"
  /\ \E r \in {WriteRecordBytes(arg.cols, arg.vals, arg.buff, arg.pos, arg.bits)} :
       /\ arg' = [arg EXCEPT !.buff = r.buff]
       /\ last' = [op |-> "WriteRecordToBuffer", err |-> r.err, t |-> "", out |-> <<>>,
                   pre |-> arg.buff]
  /\ Count
  /\ CodecRest

\* Relation.ReadFromBuffer at the same offset of the buffer just written
CodecRead ==
  /\ Up
  /\ last.op = "WriteRecordToBuffer" /\ last.err = ""
  /\ \E r \in {ReadRecordBytes(arg.cols, arg.buff, arg.pos)} :
       last' = [op |-> "ReadFromBuffer", err |-> r.err, t |-> "", out |-> r.vals,
                pre |-> last.pre]
  /\ Count
  /\ UNCHANGED arg
  /\ CodecRest

NextCodec ==
  \/ CodecWrite
  \/ CodecRead

InitCodec == InitArg(2, {DMMaxFileCount}, CodecArgs)

SpecCodec == InitCodec /\ [][NextCodec]_vars

\* a decimal integer: digits after an optional sign
Numeral(s) ==
  /\ Len(s) > 0
  /\ \/ s[1] \in 48..57 /\ \A i \in 1..Len(s) : s[i] \in 48..57
     \/ s[1] \in {43, 45} /\ Len(s) > 1 /\ \A i \in 2..Len(s) : s[i] \in 48..57

\* the digits of a numeral without the sign and the leading zeros
RECURSIVE Significant(_, _)
Significant(s, i) ==
  IF i > Len(s) THEN <<>>
  ELSE IF s[i] \in {43, 45, 48} THEN Significant(s, i + 1)
  ELSE SubSeq(s, i, Len(s))

\* the minimal-digit signed decimal of the number a numeral denotes
Canonical(s) ==
  IF Significant(s, 1) = <<>> THEN <<48>>
  ELSE (IF s[1] = 45 THEN <<45>> ELSE <<>>) \o Significant(s, 1)

\* a <= b for two digit strings of the same length
DigitsLeq(a, b) ==
  a = b \/ \E k \in 1..Len(a) : a[k] < b[k] /\ \A j \in 1..(k - 1) : a[j] = b[j]

\* the numeral denotes a number of [-2^31, 2^31 - 1]
InInt32(s) ==
  \/ Len(Significant(s, 1)) < 10
  \/ /\ Len(Significant(s, 1)) = 10
     /\ DigitsLeq(Significant(s, 1),
                  Dec(<<2, 1, 4, 7, 4, 8, 3, 6, 4>>) \o (IF s[1] = 45 THEN <<56>> ELSE <<55>>))

\* what a field written from v must read back as
ReadsAs(col, v) ==
  IF col.Kind = "INT" THEN Canonical(v)
  ELSE IF col.Kind = "FLOAT" THEN (IF v = f0x100000001 THEN f0x1 ELSE v)
  ELSE SubSeq(v, 1, IF Len(v) < col.Size THEN Len(v) ELSE col.Size)

\* C24: ReadFromBuffer after a WriteRecordToBuffer at the same offset gives,
\* per field, the canonical decimal of the number written (INT, FLOAT) or the
\* first min(len, n) bytes of the value (CHAR(n), VARCHAR(n)), and the bytes
\* of the buffer outside [pos, pos + RecordSize) are as before the write
C24_RoundTrip ==
  last.op = "ReadFromBuffer" =>
    /\ last.err = ""
    /\ Len(last.out) = Len(arg.cols)
    /\ \A i \in 1..Len(arg.cols) : last.out[i] = ReadsAs(arg.cols[i], arg.vals[i])
    /\ \A j \in 1..Len(arg.buff) :
         (j <= arg.pos \/ j > arg.pos + SizeOf(arg.cols, 1)) => arg.buff[j] = last.pre[j]

\* C25: WriteRecordToBuffer fails when the value of an INT field is no
\* decimal integer or lies outside [-2^31, 2^31 - 1]
C25_IntRange ==
  (/\ last.op = "WriteRecordToBuffer"
   /\ Len(arg.vals) = Len(arg.cols)
   /\ \E i \in 1..Len(arg.cols) :
        arg.cols[i].Kind = "INT" /\ (~Numeral(arg.vals[i]) \/ ~InInt32(arg.vals[i])))
    => last.err # ""


\* the pages of relation t that hold a record
Occupied(t) == {p \in DataPages(t) : \E i \in 1..View(p).b16 : View(p).bytemap[i] = 1}

\* C26: with one slot per page, after a successful InsertRecord the free-list
\* is empty and every page that holds a record is on the full-list, and an
\* insert made while the free-list is empty allocates exactly one data page
C26_SingleSlot ==
  [][\A t \in TableNames :
       (S = 1 /\ left' # left /\ last'.op = "Insert" /\ last'.err = "" /\ last'.t = t) =>
         /\ FreeList(t)' = {}
         /\ Occupied(t)' \subseteq FullList(t)'
         /\ FreeList(t) = {} => Cardinality(DataPages(t)') = Cardinality(DataPages(t)) + 1]_vars


\* C26 as the code has it: with one slot per page a successful InsertRecord
\* takes at most one page off the free-list and adds none, so the free-list is
\* empty afterwards whenever it held at most one page before; every page
\* holding a record is on the full-list; and an insert made while the
\* free-list is empty allocates exactly one new data page
C26_SingleSlotFromShortList ==
  [][\A t \in TableNames :
       (S = 1 /\ left' # left /\ last'.op = "Insert" /\ last'.err = "" /\ last'.t = t) =>
         /\ FreeList(t)' \subseteq FreeList(t)
         /\ Cardinality(FreeList(t)') = IF FreeList(t) = {} THEN 0
                                         ELSE Cardinality(FreeList(t)) - 1
         /\ Occupied(t)' \subseteq FullList(t)'
         /\ FreeList(t) = {} => Cardinality(DataPages(t)') = Cardinality(DataPages(t)) + 1
         /\ FreeList(t) # {} => DataPages(t)' = DataPages(t)]_vars

\* a successful insert into a one-slot relation whose free-list was empty
\* after earlier inserts: three pages, all on the full-list
C26_Witness ==
  /\ S = 1
  /\ last.op = "Insert" /\ last.err = ""
  /\ HasHeader("T1")
  /\ FreeList("T1") = {}
  /\ Cardinality(FullList("T1")) = 3
  /\ Cardinality(Occupied("T1")) = 3


\* the pages met when following next pointers from pid, in the order met
RECURSIVE ChainSeq(_, _)
ChainSeq(pid, seen) ==
  IF pid \in seen \/ ~OnDisk(pid) THEN <<>>
  ELSE <<pid>> \o ChainSeq(View(pid).b8, seen \cup {pid})

FullSeq(t) == ChainSeq(FullHead(t), {})

\* the live record of relation t that this step deleted was on page p
DeletedFrom(t, p) ==
  \E e \in LiveSet(t) : e[1].PageId = p /\ live'[t] = live[t] (-) SetToBag({e})

\* C27: when DeleteRecord frees a slot of a page that was on the full-list,
\* on return the page is the head of the free-list, it is no longer reachable
\* from the full-list head, and the other full-list pages keep their order
C27_FullPageMovesToFreeHead ==
  [][\A t \in TableNames : \A p \in DataPages(t) :
       (/\ left' # left /\ last'.op = "Delete" /\ last'.err = "" /\ last'.t = t
        /\ p \in FullList(t) /\ DeletedFrom(t, p)) =>
         /\ FreeHead(t)' = p
         /\ p \notin FullList(t)'
         /\ FullSeq(t)' = SeqRemove(FullSeq(t), p)]_vars


\* with one slot per page, the record of the middle page of a three-page
\* full-list was deleted: the page heads the free-list, the other two remain
C27_Witness ==
  /\ S = 1
  /\ last.op = "Delete" /\ last.err = ""
  /\ HasHeader("T1")
  /\ Len(FullSeq("T1")) = 2
  /\ FreeList("T1") = {FreeHead("T1")}
  /\ FullSeq("T1")[1].PageIdx > FreeHead("T1").PageIdx
  /\ FreeHead("T1").PageIdx > FullSeq("T1")[2].PageIdx


\* the list linkage of relation t: both heads in the header and the next
\* pointer of every data page
Linkage(t) ==
  [heads |-> <<FreeHead(t), FullHead(t)>>, next |-> [p \in DataPages(t) |-> View(p).b8]]

\* C28: when DeleteRecord frees a slot of a page that is already on the
\* free-list (its head or behind it), both list heads and every page's next
\* pointer are the same before and after the call
C28_FreePageLinkageKept ==
  [][\A t \in TableNames : \A p \in DataPages(t) :
       (/\ left' # left /\ last'.op = "Delete" /\ last'.err = "" /\ last'.t = t
        /\ p \in FreeList(t) /\ DeletedFrom(t, p)) =>
         Linkage(t)' = Linkage(t)]_vars


\* ------------------------------------- walks over an arbitrary linkage
\* The data files are read as they are found: the run starts on a relation
\* whose header (0,1) and data pages (0,0), (0,2), (0,3) hold any list heads
\* and any next pointers among these pages and the (-1,-1) sentinel.
WalkHeader == PID(0, 1)
WalkData == {PID(0, 0), PID(0, 2), PID(0, 3)}
WalkTargets == WalkData \cup {WalkHeader, invalidPage}

\* a data page as addDataPage and one InsertRecord of Rec(1) leave it, with
\* next pointer nx
WalkDataPage(nx) ==
  [ZeroPage EXCEPT !.b0 = StoredPid(invalidPage), !.b8 = StoredPid(nx), !.b16 = S,
                   !.bytemap = [i \in 1..S |-> IF i = 1 THEN 1 ELSE 0],
                   !.payload = [i \in 1..S |-> IF i = 1 THEN [c \in 1..NCols |-> EncodeInt(1)]
                                                ELSE ZeroCell]]

WalkHeaderPage(full, free) == [ZeroPage EXCEPT !.b0 = StoredPid(full), !.b8 = StoredPid(free)]

\* AllPageIds of relation t
DoAllPageIds(t) ==
  /\ Up
  /\ t \in DOMAIN tables
  /\ \E r \in {AllPageIds(OnRel(Mach, t))} :
       /\ Engine(r)
       /\ Note("AllPageIds", t, r)
  /\ Count
  /\ UNCHANGED <<RecordSize, tables, hdrFiles, saveFile, running, live, acq, outside, owned>>

NextWalk ==
  \/ DoScanRecords("T1")
  \/ DoAllPageIds("T1")

InitWalk ==
  /\ RecordSize \in RecordSizes
  /\ policy \in Policies
  /\ \E full \in WalkTargets, free \in WalkTargets, nx \in [WalkData -> WalkTargets] :
       files = [i \in 0..(DMMaxFileCount - 1) |->
                  IF i = 0 THEN [k \in 1..4 |-> IF PID(0, k - 1) = WalkHeader
                                                  THEN WalkHeaderPage(full, free)
                                                  ELSE WalkDataPage(nx[PID(0, k - 1)])]
                  ELSE <<>>]
  /\ bitmaps = [i \in 0..(DMMaxFileCount - 1) |-> IF i = 0 THEN <<1, 1, 1, 1>> ELSE <<>>]
  /\ frames = [i \in 1..BMBufferCount |-> emptyFrame]
  /\ repl = <<>>
  /\ lookup = <<>>
  /\ tables = [t \in {"T1"} |-> [HeaderPageId |-> WalkHeader, SlotsPerPage |-> S,
                                 Columns |-> Columns]]
  /\ hdrFiles = [t \in {"T1"} |-> WalkHeader]
  /\ saveFile = [exists |-> FALSE, entries |-> <<>>]
  /\ running = TRUE
  /\ live = [t \in {"T1"} |-> SetToBag({<<RID(p, 0), Rec(1)>> : p \in WalkData})]
  /\ acq = <<>>
  /\ owned = [t \in {"T1"} |-> WalkData]
  /\ last = [op |-> "Init", err |-> "", t |-> "", out |-> <<>>, pre |-> <<>>]
  /\ left = MaxWalkOps
  /\ dmMaxFileCount = DMMaxFileCount
  /\ used = <<>>
  /\ evicted = <<>>
  /\ written = <<>>
  /\ pc = [c \in Callers |-> idle]
  /\ mu = 0
  /\ alloc = EmptyBag
  /\ names = {"T1"}
  /\ saved = <<>>
  /\ arg = <<>>

SpecWalk == InitWalk /\ [][NextWalk]_vars

\* no element of the sequence occurs twice
NoRepeat(q) == \A i \in 1..Len(q) : \A j \in 1..Len(q) : q[i] = q[j] => i = j

\* the pages a walk of both lists of relation t meets: the free-list, then the
\* pages of the full-list up to the first page already met
BothLists(t) == ChainSeq(FreeHead(t), {}) \o ChainSeq(FullHead(t), FreeList(t))

\* the RecordIds of the occupied slots of the pages q[i..], page by page
RECURSIVE RidsOf(_, _)
RidsOf(q, i) ==
  IF i > Len(q) THEN <<>>
  ELSE [k \in 1..Len(SlotsInOrder(q[i], View(q[i]), 0)) |->
          SlotsInOrder(q[i], View(q[i]), 0)[k].rid] \o RidsOf(q, i + 1)

\* C29: ScanRecords and AllPageIds return without error on every next-pointer
\* graph, cyclic and self-looping ones included, after at most one loop
\* iteration per page; each meets every page at most once (no PageId twice in
\* the result of AllPageIds, no RecordId delivered twice by ScanRecords) and
\* stops at the first page it has already met
C29_WalksVisitOnce ==
  /\ last.op = "AllPageIds" =>
       /\ last.err = ""
       /\ Len(last.out) <= Cardinality(WalkData \cup {WalkHeader})
       /\ NoRepeat(last.out)
       /\ last.out = BothLists(last.t)
  /\ last.op = "Scan" =>
       /\ last.err = ""
       /\ NoRepeat([i \in 1..Len(last.out) |-> last.out[i].rid])
       /\ [i \in 1..Len(last.out) |-> last.out[i].rid] = RidsOf(BothLists(last.t), 1)

\* AllPageIds returned on a relation whose free-list runs (0,0) -> (0,2) ->
\* (0,2), a self-loop behind the head, and whose full-list enters it at (0,2)
C29_Witness ==
  /\ last.op = "AllPageIds" /\ last.err = ""
  /\ FreeHead("T1") = PID(0, 0)
  /\ View(PID(0, 0)).b8 = PID(0, 2)
  /\ View(PID(0, 2)).b8 = PID(0, 2)
  /\ FullHead("T1") = PID(0, 3)
  /\ View(PID(0, 3)).b8 = PID(0, 2)
  /\ last.out = <<PID(0, 0), PID(0, 2), PID(0, 3)>>


\* ------------------------------------------- prepend called on its own
\* prependToWithSpace(p) on relation t, as TestPrependDoesNotSelfLoop calls
\* it; the linkage before the call is kept in last.pre
DoPrependToWithSpace(t, p) ==
  /\ Up
  /\ t \in DOMAIN tables
  /\ \E r \in {prependToWithSpace(OnRel(Mach, t), p)} :
       /\ Engine(r)
       /\ last' = [op |-> "prependToWithSpace", err |-> r.err, t |-> t, out |-> <<p>>,
                   pre |-> Linkage(t)]
  /\ Count
  /\ UNCHANGED <<RecordSize, tables, hdrFiles, saveFile, running, live, acq, outside, owned>>

\* prependToFullList(p) on relation t
DoPrependToFullList(t, p) ==
  /\ Up
  /\ t \in DOMAIN tables
  /\ \E r \in {prependToFullList(OnRel(Mach, t), p)} :
       /\ Engine(r)
       /\ last' = [op |-> "prependToFullList", err |-> r.err, t |-> t, out |-> <<p>>,
                   pre |-> Linkage(t)]
  /\ Count
  /\ UNCHANGED <<RecordSize, tables, hdrFiles, saveFile, running, live, acq, outside, owned>>

NextPrepend ==
  \/ DoAddTable("T1")
  \/ \E v \in RecVals : DoInsertRecord("T1", v)
  \/ \E e \in LiveSet("T1") : DoDeleteRecord("T1", e)
  \/ \E p \in DataPages("T1") : DoPrependToWithSpace("T1", p)
  \/ \E p \in DataPages("T1") : DoPrependToFullList("T1", p)

InitPrepend == InitWith(MaxPrependOps)

SpecPrepend == InitPrepend /\ [][NextPrepend]_vars

\* C30: prepending a page that is already the head of the list is a no-op, so
\* a second prepend of the same page leaves the head and the page's next
\* pointer as the first call left them; a prepend of a page that is not the
\* head makes it the head with the old head as its next pointer, and no
\* prepend makes the next pointer of the page the page itself
C30_PrependHeadNoOp ==
  [][\A t \in TableNames : \A p \in DataPages(t) :
       (/\ left' # left /\ last'.t = t /\ last'.out = <<p>> /\ last'.err = ""
        /\ last'.op \in {"prependToWithSpace", "prependToFullList"}) =>
         /\ (IF last'.op = "prependToWithSpace" THEN FreeHead(t) ELSE FullHead(t)) = p
              => Linkage(t)' = Linkage(t)
         /\ (IF last'.op = "prependToWithSpace" THEN FreeHead(t)' ELSE FullHead(t)') = p
         /\ (IF last'.op = "prependToWithSpace" THEN FreeHead(t) ELSE FullHead(t)) # p
              => View(p)'.b8 = (IF last'.op = "prependToWithSpace" THEN FreeHead(t)
                                                                   ELSE FullHead(t))
         /\ View(p)'.b8 = p => View(p).b8 = p]_vars

\* the second of two prependToWithSpace calls with the same page, which was
\* not the head before the first one: head and next pointer are as the first
\* call left them, and the next pointer is not the page itself
C30_Witness ==
  /\ last.op = "prependToWithSpace" /\ last.err = ""
  /\ last.pre.heads[1] = last.out[1]
  /\ FreeHead("T1") = last.out[1]
  /\ View(last.out[1]).b8 \in DataPages("T1") \ {last.out[1]}
  /\ last.out[1] \in FullList("T1")


\* page p has a slot whose bytemap byte is 0
HasFreeSlot(p) == \E i \in 1..View(p).b16 : View(p).bytemap[i] = 0

\* C31: InsertRecord allocates a new data page only when no data page of the
\* relation has a free slot
C31_ReuseBeforeAllocate ==
  [][\A t \in TableNames :
       (/\ left' # left /\ last'.op = "Insert" /\ last'.err = "" /\ last'.t = t
        /\ t \in DOMAIN tables /\ DataPages(t)' # DataPages(t)) =>
         \A p \in DataPages(t) : ~HasFreeSlot(p)]_vars

\* ------------------------------------ longer runs of inserts and deletes
\* InsertRecord of one value and DeleteRecord only, for MaxReuseOps operations
NextReuse ==
  \/ DoAddTable("T1")
  \/ DoInsertRecord("T1", 1)
  \/ \E e \in LiveSet("T1") : DoDeleteRecord("T1", e)

InitReuse == InitWith(MaxReuseOps)

SpecReuse == InitReuse /\ [][NextReuse]_vars

\* C32: LRU and MRU keep the same ordering list for the same GetPage and
\* FreePage calls as long as nothing is evicted: a successful GetPage that
\* evicts nothing leaves the frame it hands out at the most-recent end under
\* either policy (a list that was in order of last access before the call is
\* in order of last access after it), FreePage does not reorder, and
\* SetCurrentReplacementPolicy leaves frames, lookup map and list unchanged
C32_SameOrderBothPolicies ==
  [][/\ (/\ last'.op = "GetPage" /\ last'.err = "" /\ left' # left
         /\ last'.out \in {<<"hit">>, <<"free">>} /\ repl = used) => repl' = used'
     /\ (last'.op = "FreePage" /\ left' # left) => repl' = repl
     /\ (last'.op = "SetPolicy" /\ left' # left) =>
          frames' = frames /\ lookup' = lookup /\ repl' = repl]_vars

\* -------------------------------------- the heap operations and their pins
\* the RecordIds a caller may hand to DeleteRecord: every slot index from -1 to
\* S of every data page; a live one comes with its record
PinRids(t) ==
  LiveSet(t) \cup
    {<<RID(p, i), Rec(1)>> : <<p, i>> \in
       {x \in DataPages(t) \X (-1..S) : \A e \in LiveSet(t) : e[1] # RID(x[1], x[2])}}

NextPin ==
  \/ DoAddTable("T1")
  \/ \E v \in RecVals : DoInsertRecord("T1", v)
  \/ \E e \in PinRids("T1") : DoDeleteRecord("T1", e)
  \/ DoScanRecords("T1")
  \/ DoAllPageIds("T1")

InitPin == InitWith(MaxPinOps)

SpecPin == InitPin /\ [][NextPin]_vars

NoPins == \A i \in 1..BMBufferCount : frames[i].PinCount = 0

\* C33: a heap operation (AddTable's EnsureHeader, InsertRecord, DeleteRecord,
\* ScanRecords, AllPageIds) that starts with every PinCount 0 returns with
\* every PinCount 0, with or without an error, and never held more than one
\* pin at a time
C33_HeapOpsReleasePins ==
  [][(/\ left' # left /\ NoPins
      /\ last'.op \in {"AddTable", "Insert", "Delete", "Scan", "AllPageIds"}) =>
       NoPins' /\ last'.pre[1] <= 1]_vars

\* DeleteRecord returned an error after it had pinned the page, and no pin is left
C33_Witness ==
  /\ last.op = "Delete" /\ last.err = "slot already free"
  /\ last.pre = <<1>>
  /\ NoPins

\* C34: InsertRecord and DeleteRecord always return: in no state reached
\* through InsertRecord and DeleteRecord does a list walk inside them
\* (the free-list walk, unlinkFromWithSpace, unlinkFromFull) come back to a
\* page it has already left and go round for ever
C34_InsertDeleteReturn ==
  last.op \in {"Insert", "Delete"} => last.err # "hang"

\* InsertRecord returned on a relation whose free-list is a cycle
C34_Witness ==
  /\ last.op = "Insert" /\ last.err = ""
  /\ HasHeader("T1")
  /\ Cyclic(FreeHead("T1"), {})

\* the bytes of page pid are safe with the pool: it is not resident, or its
\* frame is dirty (modified and released with FreePage(pid, true)), or its
\* frame holds what the disk holds
Safe(pid) ==
  \/ pid \notin DOMAIN lookup
  \/ frames[lookup[pid]].Dirty
  \/ frames[lookup[pid]].Data = FilePage(files, pid)

\* C35: the pool is coherent with the disk: the bytes a GetPage(pid) returns
\* are those of the latest modification released with FreePage(pid, true).
\* Step by step: a successful GetPage(pid) hands out the bytes the pool and the
\* disk held for pid, and no GetPage (hit, load or eviction), FreePage or
\* FlushBuffers changes the bytes held for a page whose bytes are safe
C35_PoolCoherent ==
  [][\A pid \in BufPids :
       (/\ left' # left /\ last'.op \in {"GetPage", "FreePage", "FlushBuffers"}
        /\ OnDisk(pid) /\ Safe(pid)) =>
         /\ View(pid)' = View(pid)
         /\ (last'.op = "GetPage" /\ last'.err = "" /\ last'.pre = pid) =>
              frames'[lookup'[pid]].Data = View(pid)]_vars

\* C36: a GetPage call that returns an error leaves the pool unchanged: every
\* frame keeps its PageId, bytes, pin count and dirty flag, and the lookup map
\* still holds exactly the PageIds of the frames
C36_FailedGetPageKeepsPool ==
  [][(left' # left /\ last'.op = "GetPage" /\ last'.err # "") =>
       /\ frames' = frames
       /\ lookup' = lookup
       /\ DOMAIN lookup' = {frames'[i].PageId : i \in Resident}]_vars


NewRecs == {Rec(w) : w \in RecVals} \cup {<<>>}

\* DBManager.UpdateWhere; the history keeps the rows that were not matched,
\* the RecordIds of the updated ones being new
DoUpdateWhere(t, v, rec) ==
  /\ Up
  /\ t \in DOMAIN tables
  /\ \E r \in {UpdateWhereTo(OnRel(Mach, t), v, rec)} :
       /\ r.err # "cap"
       /\ Engine(r)
       /\ RelAfter(r, t)
       /\ live' = Put(live, t, Unmatched(live[t], v))
       /\ Note("Update", t, [r EXCEPT !.out = <<>>])
  /\ Count
  /\ UNCHANGED <<RecordSize, saveFile, running, acq, outside>>

NextUpd ==
  \/ DoAddTable("T1")
  \/ \E v \in RecVals : DoInsertRecord("T1", v)
  \/ \E v \in RecVals, rec \in NewRecs : DoUpdateWhere("T1", v, rec)

InitUpd == InitWith(MaxUpdOps)

SpecUpd == InitUpd /\ [][NextUpd]_vars

\* the number of occupied slots on the pages of t
RECURSIVE SlotCount(_)
SlotCount(ps) ==
  IF ps = {} THEN 0
  ELSE LET p == CHOOSE x \in ps : TRUE
       IN Cardinality({i \in 1..View(p).b16 : View(p).bytemap[i] = 1}) + SlotCount(ps \ {p})

\* C38: UpdateWhere never loses a record: whether it succeeds or returns an
\* error, the table holds as many live records after the call as before it
C38_UpdateKeepsCount ==
  [][\A t \in TableNames :
       (left' # left /\ last'.op = "Update" /\ last'.t = t /\ last'.err # "hang")
       => SlotCount(DataPages(t))' = SlotCount(DataPages(t))]_vars


\* ------------------------------------------------- runs of GetAllRecords
\* recordsInDataPage: GetPage(pid), the records of the occupied slots in slot
\* order, bytes 8..15 as the next page, FreePage(pid, false)
RECURSIVE RecsOf(_, _)
RecsOf(q, i) == IF i > Len(q) THEN <<>> ELSE <<q[i].rec>> \o RecsOf(q, i + 1)

recordsInDataPage(m, pid) ==
  Then(GetPage(m, pid), LAMBDA g :
    Then(FreePage(g, pid, FALSE), LAMBDA f :
      [f EXCEPT !.out = @ \o RecsOf(SlotsInOrder(pid, g.frames[g.fi].Data, 0), 1),
                !.ret = g.frames[g.fi].Data.b8]))

\* one loop "for pid := head; pid != invalidPage;" of GetAllRecords.  The loop
\* keeps no visited map: once it comes back to a page it has left it repeats
\* for ever, appending to out each time round: err "hang".
RECURSIVE GetAllWalk(_, _, _)
GetAllWalk(m, pid, seen) ==
  IF pid = invalidPage THEN m
  ELSE IF pid \in seen THEN Fail(m, "hang")
  ELSE Then(recordsInDataPage(m, pid), LAMBDA p : GetAllWalk(p, p.ret, seen \cup {pid}))

GetAllRecords(m) ==
  IF m.HeaderPageId = invalidPage THEN m
  ELSE Then(headerFirstWithSpace(m), LAMBDA w :
         Then(GetAllWalk([w EXCEPT !.out = <<>>], w.ret, {}), LAMBDA a :
           Then(headerFirstFull(a), LAMBDA h : GetAllWalk(h, h.ret, {}))))

DoGetAllRecords(t) ==
  /\ Up
  /\ t \in DOMAIN tables
  /\ \E r \in {GetAllRecords(OnRel(Mach, t))} :
       /\ Engine(r)
       /\ Note("GetAll", t, r)
  /\ Count
  /\ UNCHANGED <<RecordSize, tables, hdrFiles, saveFile, running, live, acq, outside, owned>>

NextAll ==
  \/ DoAddTable("T1")
  \/ \E v \in RecVals : DoInsertRecord("T1", v)
  \/ \E e \in LiveSet("T1") : DoDeleteRecord("T1", e)
  \/ DoGetAllRecords("T1")

InitAll == InitWith(MaxAllOps)

SpecAll == InitAll /\ [][NextAll]_vars

\* the records a ScanRecords of table t would visit in the present state
ScanWouldVisit(t) == RecsOf(ScanRecords(OnRel(Mach, t)).out, 1)

\* C39: GetAllRecords returns, and what it returns is, as a bag, what
\* ScanRecords visits in the same state; its length is the number of live records
C39_GetAllMatchesScan ==
  [][\A t \in TableNames :
       (left' # left /\ last'.op = "GetAll" /\ last'.t = t) =>
         /\ last'.err = ""
         /\ SeqToBag(last'.out) = SeqToBag(ScanWouldVisit(t))
         /\ Len(last'.out) = BagCardinality(live[t])]_vars


\* ------------------------------------------------- runs with fresh tables
\* Tables are added, filled, dropped and added again, with FlushBuffers and
\* scans in between.  No record is deleted and only the inserts that succeed
\* are followed, so that live[t] is empty exactly when no InsertRecord has been
\* called on t since its AddTable.
NextFresh ==
  \/ \E t \in TableNames : DoAddTable(t)
  \/ \E t \in TableNames : DoInsertRecord(t, 1) /\ last'.err = ""
  \/ \E t \in TableNames : DoRemoveTable(t)
  \/ DoFlushBuffers
  \/ \E t \in TableNames : DoScanRecords(t)

InitFresh == InitWith(MaxFreshOps)

SpecFresh == InitFresh /\ [][NextFresh]_vars

\* C40: a ScanRecords of a table on which InsertRecord has not been called
\* since its AddTable visits no record
C40_NewTableEmpty ==
  [][\A t \in TableNames :
       (left' # left /\ last'.op = "Scan" /\ last'.t = t /\ last'.err = ""
          /\ live[t] = EmptyBag)
       => last'.out = <<>>]_vars

====
